---- MODULE Spec2Model ----
(***************************************************************************)
(* Chihiros doser control: the frame codec (dosingcommands.py,             *)
(* protocol.py) and the BLE connection / dispatch engine                   *)
(* (device/doser_device.py, BaseDevice and DoserDevice).                   *)
(*                                                                         *)
(* Specifications:                                                         *)
(*   SpecBuilder  the frame builders applied to bounded inputs             *)
(*   SpecMsgId    the message-id generators run through their whole cycle  *)
(*   SpecSession  one session building frames with successive ids          *)
(*   SpecDose     the 25.6 mL + 0.1 mL dose encoder / decoder              *)
(*   Spec         the connection engine under concurrent asyncio tasks     *)
(*   SpecFanout   the notification fan-out over the listener list          *)
(*   SpecWeekdays the weekday mask encoder / decoder                       *)
(*   SpecParse    parse_frame applied to one record                        *)
(*   SpecTotals   parse_totals_frame applied to a 0x5B frame               *)
(*   SpecPipeline decode_records and build_device_state on record lists    *)
(*   SpecOps      the device operations sending their frames one by one    *)
(*   SpecProcess  the builders called in sequence in one process           *)
(*   SpecRoundTrip dose frames built and parsed back                       *)
(***************************************************************************)
EXTENDS Integers, Sequences, FiniteSets, TLC

VARIABLES
    given,      \* SpecBuilder: the arguments handed to a frame builder
    built,      \* SpecBuilder: what the builder returned
    gen,        \* SpecMsgId: which generator runs, and its current id
    msgId,      \* SpecSession: BaseDevice._msg_id
    wire,       \* SpecSession: the frames sent so far (message-ids and attempts)
    dose,       \* SpecDose: input and result of the dose encoder
    sess,       \* Spec: the BaseDevice fields
    tasks,      \* Spec: the running coroutines, their position and locals
    ble,        \* Spec: the transport (clients, writes in flight)
    hist,       \* Spec: history of what happened (observation only)
    run         \* Spec: the coroutine the event loop is running, 0 when none

codecVars == <<given, built, gen, msgId, wire, dose>>

engineVars == <<sess, tasks, ble, hist, run>>

vars == <<given, built, gen, msgId, wire, dose, sess, tasks, ble, hist, run>>

(***************************************************************************)
(* Bytes                                                                   *)
(***************************************************************************)
Byte == 0..255

SENTINEL == 90      \* 0x5A

REMAP == 89         \* 0x59

Bit(a, k) == (a \div k) % 2

XorBit(a, b, k) == (Bit(a, k) + Bit(b, k)) % 2

NibbleXor ==
    [a \in 0..15 |-> [b \in 0..15 |->
        XorBit(a, b, 1) + 2 * XorBit(a, b, 2)
        + 4 * XorBit(a, b, 4) + 8 * XorBit(a, b, 8)]]

\* a ^ b on bytes
Xor(a, b) ==
    16 * NibbleXor[a \div 16][b \div 16] + NibbleXor[a % 16][b % 16]

\* v & 0xFF on Python integers (two's complement for negatives)
And255(v) == v % 256

RECURSIVE XorFold(_, _, _)
XorFold(buf, i, c) ==
    IF i > Len(buf) THEN c ELSE XorFold(buf, i + 1, Xor(c, buf[i]))

\* dosingcommands._xor_checksum / protocol._xor_checksum: XOR of buf[1:]
xor_checksum(buf) ==
    IF Len(buf) < 2 THEN 0 ELSE And255(XorFold(buf, 3, buf[2]))

\* dosingcommands._clamp_byte: TRUE when the value is accepted
clamp_byte_ok(v) == v >= 0 /\ v <= 255

(***************************************************************************)
(* Message-id                                                              *)
(***************************************************************************)
\* the BaseDevice.get_next_msg_id fallback body: no 0x5A skip
next_message_id_noskip(cur) ==
    LET lo == And255(cur[2] + 1)
        hi == IF lo = 0 THEN And255(cur[1] + 1) ELSE And255(cur[1])
    IN  <<hi, lo>>

\* dosingcommands.next_message_id (protocol._next_msg_id has the same body)
next_message_id(cur) ==
    LET lo1 == And255(And255(cur[2]) + 1)
        lo  == IF lo1 = SENTINEL THEN And255(lo1 + 1) ELSE lo1
        hi0 == And255(cur[1])
        hi1 == IF lo = 0 THEN And255(hi0 + 1) ELSE hi0
        hi  == IF lo = 0 /\ hi1 = SENTINEL THEN And255(hi1 + 1) ELSE hi1
    IN  <<hi, lo>>

\* a rebuild that does not advance the id
bump_msg_id_stuck(msg_hi, msg_lo) == <<msg_hi, msg_lo>>

\* dosingcommands._bump_msg_id
bump_msg_id(msg_hi, msg_lo) ==
    LET lo1 == And255(msg_lo + 1)
        lo  == IF lo1 = SENTINEL THEN And255(lo1 + 1) ELSE lo1
        hi1 == IF lo = 0 THEN And255(msg_hi + 1) ELSE msg_hi
        hi  == IF lo = 0 /\ hi1 = SENTINEL THEN And255(hi1 + 1) ELSE hi1
    IN  <<hi, lo>>

\* BaseDevice._msg_id = dosingcommands.next_message_id()  (current is None)
InitialMsgId == next_message_id(<<0, 0>>)

\* protocol._last_msg_id
InitialLastMsgId == <<0, 0>>

(***************************************************************************)
(* Frame builders                                                          *)
(***************************************************************************)
BUILD_ATTEMPTS == 8

A5_LEN_BIAS == 5

LED_LEN_BIAS == 2

CMD_LED_QUERY == 91

\* no remap of 0x5A
sanitize_byte_keep(b) == b

\* dosingcommands._sanitize_params: 0x59 if b == 0x5A else b
sanitize_byte(b) == IF b = SENTINEL THEN REMAP ELSE b

\* dosingcommands._sanitize_params (the bytes were clamped before)
sanitize_params(params) ==
    [i \in 1..Len(params) |-> sanitize_byte(params[i])]

\* protocol._sanitize_params: int(p) & 0xFF, then the remap
sanitize_params_masked(params) ==
    [i \in 1..Len(params) |-> sanitize_byte(And255(params[i]))]

AllBytes(s) == \A i \in 1..Len(s) : clamp_byte_ok(s[i])

RECURSIVE a5_attempts_new_mode(_, _, _, _, _, _)
\* escapes a 0x5A checksum by changing the mode byte as well
a5_attempts_new_mode(cmd_id, cmd_mode, msg_hi, msg_lo, ps, left) ==
    LET frame    == <<cmd_id, 1, Len(ps) + A5_LEN_BIAS, msg_hi, msg_lo, cmd_mode>> \o ps
        checksum == And255(xor_checksum(frame))
        b        == bump_msg_id(msg_hi, msg_lo)
    IN  IF checksum # SENTINEL \/ left = 1
        THEN [err |-> "none", bytes |-> Append(frame, checksum),
              tries |-> BUILD_ATTEMPTS - left + 1]
        ELSE a5_attempts_new_mode(cmd_id, (cmd_mode + 1) % 256, b[1], b[2],
                                  ps, left - 1)

RECURSIVE a5_attempts(_, _, _, _, _, _)
a5_attempts(cmd_id, cmd_mode, msg_hi, msg_lo, ps, left) ==
    LET frame    == <<cmd_id, 1, Len(ps) + A5_LEN_BIAS, msg_hi, msg_lo, cmd_mode>> \o ps
        checksum == And255(xor_checksum(frame))
        b        == bump_msg_id(msg_hi, msg_lo)
    IN  IF checksum # SENTINEL \/ left = 1
        THEN [err |-> "none", bytes |-> Append(frame, checksum),
              tries |-> BUILD_ATTEMPTS - left + 1]
        ELSE a5_attempts(cmd_id, cmd_mode, b[1], b[2], ps, left - 1)

\* dosingcommands._create_command_encoding_dosing_pump
create_command_encoding_dosing_pump(cmd_id, cmd_mode, msg_id, parameters) ==
    IF ~(clamp_byte_ok(cmd_id) /\ clamp_byte_ok(cmd_mode)
         /\ clamp_byte_ok(msg_id[1]) /\ clamp_byte_ok(msg_id[2])
         /\ AllBytes(parameters))
    THEN [err |-> "ValueError", bytes |-> <<>>, tries |-> 0]
    ELSE a5_attempts(cmd_id, cmd_mode, msg_id[1], msg_id[2],
                     sanitize_params(parameters), BUILD_ATTEMPTS)

RECURSIVE encode_attempts(_, _, _, _, _, _)
encode_attempts(cmd, bias, mode, ps, last, left) ==
    LET id   == next_message_id(last)
        body == <<cmd, 1, Len(ps) + bias, id[1], id[2], mode>> \o ps
        chk  == xor_checksum(body)
    IN  IF chk # SENTINEL \/ left = 1
        THEN [err |-> "none", bytes |-> Append(body, chk),
              tries |-> BUILD_ATTEMPTS - left + 1, last |-> id]
        ELSE encode_attempts(cmd, bias, mode, ps, id, left - 1)

\* protocol._encode; the result carries the new protocol._last_msg_id
encode(cmd, mode, params, last) ==
    encode_attempts(cmd, A5_LEN_BIAS, mode, sanitize_params_masked(params),
                    last, BUILD_ATTEMPTS)

\* a 5B frame with the length byte of the A5 family
encode_5b_a5_length(mode, params, last) ==
    encode_attempts(CMD_LED_QUERY, A5_LEN_BIAS, mode,
                    sanitize_params_masked(params), last, BUILD_ATTEMPTS)

\* protocol.encode_5b
encode_5b(mode, params, last) ==
    encode_attempts(CMD_LED_QUERY, LED_LEN_BIAS, mode,
                    sanitize_params_masked(params), last, BUILD_ATTEMPTS)

(***************************************************************************)
(* SpecBuilder: the builders as pure functions of bounded inputs           *)
(***************************************************************************)
MaxParams == 2

\* parameter values tried: an ordinary byte, the sentinel, and a value
\* outside 0..255 (346 = 256 + 0x5A)
ParamValues == {7, SENTINEL, 346}

\* message-id bytes tried: around the sentinel, the low-byte wrap and the
\* (127,255) -> (128,0) carry, which keeps hi XOR lo unchanged
IdHiValues == {0, 89, SENTINEL, 127, 255}

IdLoValues == {0, 88, 89, SENTINEL, 255}

ParamLists == UNION {[1..n -> ParamValues] : n \in 0..MaxParams}

Builders == {"a5", "encode", "encode_5b"}

IdleGen == [kind |-> "session", prev |-> <<0, 0>>, id |-> InitialMsgId,
            stepped |-> FALSE]

IdleDose == [in |-> 0, err |-> "pending", hi |-> 0, lo |-> 0]

NotBuilt == [err |-> "pending", bytes |-> <<>>, tries |-> 0, last |-> <<0, 0>>]

InitBuilder ==
    /\ given \in [builder : Builders, cmd : {165, 90}, mode : Byte,
                  id : IdHiValues \X IdLoValues, params : ParamLists]
    /\ given.builder # "a5" => given.cmd = 165
    \* protocol._last_msg_id only ever holds what _next_msg_id returned
    /\ given.builder # "a5" => given.id[1] # SENTINEL /\ given.id[2] # SENTINEL
    /\ built = NotBuilt
    /\ gen = IdleGen /\ msgId = InitialMsgId /\ wire = <<>> /\ dose = IdleDose
    /\ sess = 0 /\ tasks = 0 /\ ble = 0 /\ hist = 0 /\ run = 0

\* a caller applies _create_command_encoding_dosing_pump
BuildA5 ==
    /\ given.builder = "a5"
    /\ built.err = "pending"
    /\ LET r == create_command_encoding_dosing_pump(
                    given.cmd, given.mode, given.id, given.params)
       IN  built' = [err |-> r.err, bytes |-> r.bytes, tries |-> r.tries,
                     last |-> given.id]
    /\ UNCHANGED <<given, gen, msgId, wire, dose>>
    /\ UNCHANGED engineVars

\* a caller applies protocol._encode; given.id is protocol._last_msg_id
BuildEncode ==
    /\ given.builder = "encode"
    /\ built.err = "pending"
    /\ built' = encode(given.cmd, given.mode, given.params, given.id)
    /\ UNCHANGED <<given, gen, msgId, wire, dose>>
    /\ UNCHANGED engineVars

\* a caller applies protocol.encode_5b
BuildEncode5b ==
    /\ given.builder = "encode_5b"
    /\ built.err = "pending"
    /\ built' = encode_5b(given.mode, given.params, given.id)
    /\ UNCHANGED <<given, gen, msgId, wire, dose>>
    /\ UNCHANGED engineVars

NextBuilder == BuildA5 \/ BuildEncode \/ BuildEncode5b

SpecBuilder == InitBuilder /\ [][NextBuilder]_vars

IsFrame == built.err = "none"

\* the parameter bytes of the built frame
FrameParams == SubSeq(built.bytes, 7, Len(built.bytes) - 1)

\* C1: the trailing byte of every built frame is the XOR of the bytes from
\* index 1 through the last parameter byte, and it is never 0x5A
C1_ChecksumInvariant ==
    IsFrame =>
        LET n == Len(built.bytes)
        IN  /\ n >= 7
            /\ built.bytes[n] = xor_checksum(SubSeq(built.bytes, 1, n - 1))
            /\ built.bytes[n] # SENTINEL

\* a frame that escaped a 0x5A checksum twice in a row (three attempts)
C1_Witness ==
    /\ IsFrame
    /\ built.tries = 3
    /\ built.bytes[Len(built.bytes)] # SENTINEL
\* C2 as stated: no parameter byte and no message-id byte (indices 3 and 4)
\* of an emitted frame equals 0x5A, whatever message-id the builder is given
C2_NoSentinelAnyId ==
    IsFrame =>
        /\ \A i \in 1..Len(FrameParams) : FrameParams[i] # SENTINEL
        /\ built.bytes[4] # SENTINEL
        /\ built.bytes[5] # SENTINEL

GivenIdClean == given.id[1] # SENTINEL /\ given.id[2] # SENTINEL

\* C2 amended: no parameter byte of an emitted frame equals 0x5A; and no
\* message-id byte equals 0x5A when the message-id handed to the builder has
\* no 0x5A byte (the builder skips 0x5A only when it advances the id)
C2_NoSentinelCleanId ==
    IsFrame =>
        /\ \A i \in 1..Len(FrameParams) : FrameParams[i] # SENTINEL
        /\ GivenIdClean => built.bytes[4] # SENTINEL /\ built.bytes[5] # SENTINEL

\* an A5 frame built from a 0x5A parameter whose id was advanced from low
\* byte 0x59 over the sentinel to 0x5B
C2_Witness ==
    /\ IsFrame
    /\ given.builder = "a5"
    /\ \E i \in 1..Len(given.params) : given.params[i] = SENTINEL
    /\ given.id[2] = REMAP
    /\ built.tries = 2
    /\ built.bytes[5] = SENTINEL + 1

\* C33: every built frame is [cmd, 1, length, msg_hi, msg_lo, mode,
\* params..., checksum] of len(params) + 7 bytes, the length byte being
\* len(params) + 5 for the A5 builders and len(params) + 2 for the 5B builder
C33_FrameLayout ==
    IsFrame =>
        LET n == Len(given.params)
        IN  /\ Len(built.bytes) = n + 7
            /\ built.bytes[1] = (IF given.builder = "encode_5b" THEN 91
                                 ELSE given.cmd)
            /\ built.bytes[2] = 1
            /\ built.bytes[3] = (IF given.builder = "encode_5b" THEN n + 2
                                 ELSE n + 5)
            /\ built.bytes[4] \in Byte /\ built.bytes[5] \in Byte
            /\ built.bytes[6] = given.mode
            /\ Len(FrameParams) = n
            /\ \A i \in 1..Len(built.bytes) : built.bytes[i] \in Byte

\* build_totals_query_5b(0x22): a 7-byte 0x5B frame with length byte 2
C33_Witness ==
    /\ IsFrame
    /\ given.builder = "encode_5b" /\ given.params = <<>> /\ given.mode = 34
    /\ Len(built.bytes) = 7
    /\ built.bytes[1] = 91 /\ built.bytes[3] = 2

(***************************************************************************)
(* SpecMsgId: the next-id operation run through its whole cycle            *)
(***************************************************************************)
InitMsgId ==
    /\ gen \in {[kind |-> "session", prev |-> <<0, 0>>, id |-> InitialMsgId,
                 stepped |-> FALSE],
                [kind |-> "protocol", prev |-> <<0, 0>>, id |-> InitialLastMsgId,
                 stepped |-> FALSE]}
    /\ given = 0 /\ built = NotBuilt /\ msgId = InitialMsgId /\ wire = <<>>
    /\ dose = IdleDose
    /\ sess = 0 /\ tasks = 0 /\ ble = 0 /\ hist = 0 /\ run = 0

\* BaseDevice.get_next_msg_id on the session's counter
GetNextMsgId ==
    /\ gen.kind = "session"
    /\ gen' = [gen EXCEPT !.prev = gen.id, !.id = next_message_id(gen.id),
                          !.stepped = TRUE]
    /\ UNCHANGED <<given, built, msgId, wire, dose>>
    /\ UNCHANGED engineVars

\* protocol._next_msg_id on the module-wide counter
NextMsgIdGlobal ==
    /\ gen.kind = "protocol"
    /\ gen' = [gen EXCEPT !.prev = gen.id, !.id = next_message_id(gen.id),
                          !.stepped = TRUE]
    /\ UNCHANGED <<given, built, msgId, wire, dose>>
    /\ UNCHANGED engineVars

NextMsgId == GetNextMsgId \/ NextMsgIdGlobal

SpecMsgId == InitMsgId /\ [][NextMsgId]_vars

\* C5: after any number of next-id steps neither byte of the message-id is
\* 0x5A; the low byte is the one incremented (by one, or by two over 0x5A),
\* and the high byte changes only when the low byte wrapped to 0
C5_IdNeverSentinel ==
    gen.stepped =>
        /\ gen.id[1] # SENTINEL
        /\ gen.id[2] # SENTINEL
        /\ gen.id[2] = IF (gen.prev[2] + 1) % 256 = SENTINEL
                       THEN SENTINEL + 1 ELSE (gen.prev[2] + 1) % 256
        /\ gen.id[1] # gen.prev[1] => gen.id[2] = 0
        /\ gen.id[1] \in {gen.prev[1], (gen.prev[1] + 1) % 256, (gen.prev[1] + 2) % 256}

\* the low byte has stepped over 0x5A, wrapped, and carried into the high byte
C5_Witness ==
    /\ gen.kind = "session"
    /\ gen.stepped
    /\ gen.prev = <<0, 255>>
    /\ gen.id = <<1, 0>>
(***************************************************************************)
(* SpecSession: one session building frames with successive message-ids    *)
(***************************************************************************)
MaxSent == 100

\* the (cmd, mode, params) of the frames the device operations build:
\* create_order_confirmation 90/4 [1], 165/4 [4], 165/4 [5],
\* create_switch_to_auto_mode_dosing_pump_command 165/32 [ch, 0, 1],
\* create_add_dosing_pump_command_manuell_ml 165/27 [ch, 0, 0, hi, lo]
SessionCommands ==
    {<<90, 4, <<1>>>>, <<165, 4, <<4>>>>, <<165, 4, <<5>>>>,
     <<165, 32, <<0, 0, 1>>>>, <<165, 27, <<0, 0, 0, 1, 140>>>>}

InitSession ==
    /\ msgId = InitialMsgId
    /\ wire = <<>>
    /\ given = 0 /\ built = NotBuilt /\ gen = IdleGen /\ dose = IdleDose
    /\ sess = 0 /\ tasks = 0 /\ ble = 0 /\ hist = 0 /\ run = 0

\* the last two frames put on the wire, and how many were sent
WireAfter(w, f) ==
    [n    |-> (IF w = <<>> THEN 0 ELSE w.n) + 1,
     prev |-> IF w = <<>> THEN <<>> ELSE w.last,
     last |-> f]

\* DoserDevice.raw_dosing_pump: the frame is built with get_next_msg_id()
\* and sent; every other operation builds its frames the same way
raw_dosing_pump(c) ==
    /\ (IF wire = <<>> THEN 0 ELSE wire.n) < MaxSent
    /\ LET id  == next_message_id(msgId)
           pkt == create_command_encoding_dosing_pump(c[1], c[2], id, c[3])
       IN  /\ msgId' = id
           /\ wire' = WireAfter(wire, [id |-> <<pkt.bytes[4], pkt.bytes[5]>>,
                                       session |-> id, tries |-> pkt.tries,
                                       mode |-> c[2]])
    /\ UNCHANGED <<given, built, gen, dose>>
    /\ UNCHANGED engineVars

NextSession == \E c \in SessionCommands : raw_dosing_pump(c)

SpecSession == InitSession /\ [][NextSession]_vars

IdValue(id) == 256 * id[1] + id[2]

\* C4: the message-ids of the frames put on the wire within one session are
\* strictly increasing (none reused, none decremented), also when the
\* builder advanced the id to escape a 0x5A checksum
C4_WireIdsIncrease ==
    (wire # <<>> /\ wire.prev # <<>>) =>
        IdValue(wire.prev.id) < IdValue(wire.last.id)

(***************************************************************************)
(* SpecDose: the 25.6 mL bucket + 0.1 mL remainder dose format             *)
(***************************************************************************)
\* inputs are hundredths of a millilitre, 0 .. MaxDoseIn
MaxDoseIn == 100100

ML_MIN_TENTHS == 2        \* Decimal("0.2")

ML_MAX_TENTHS == 9999     \* Decimal("999.9")

BUCKET_TENTHS == 256      \* Decimal("25.6")

\* Decimal(s).quantize(Decimal("0.1"), ROUND_HALF_UP), in tenths
quantize_half_up(hundredths) ==
    IF hundredths >= 0 THEN (hundredths + 5) \div 10
    ELSE -((5 - hundredths) \div 10)

\* buckets of 25 mL instead of 25.6 mL
split_ml_25_6_bucket25(total) ==
    LET q  == quantize_half_up(total)
        hi == q \div 250
    IN  IF q < ML_MIN_TENTHS \/ q > ML_MAX_TENTHS
        THEN [err |-> "ValueError", hi |-> 0, lo |-> 0]
        ELSE [err |-> "none", hi |-> And255(hi), lo |-> And255(q - hi * 250)]

\* protocol._split_ml_25_6
split_ml_25_6(total) ==
    LET q   == quantize_half_up(total)
        hi0 == q \div BUCKET_TENTHS
        rem == q - hi0 * BUCKET_TENTHS
        hi  == IF rem = 256 THEN hi0 + 1 ELSE hi0
        lo  == IF rem = 256 THEN 0 ELSE rem
    IN  IF q < ML_MIN_TENTHS \/ q > ML_MAX_TENTHS
        THEN [err |-> "ValueError", hi |-> 0, lo |-> 0]
        ELSE [err |-> "none", hi |-> And255(hi), lo |-> And255(lo)]

\* protocol.ml_from_25_6: round(25.6 * hi + 0.1 * lo, 1), in tenths
ml_from_25_6(hi_buckets, tenths_remainder) ==
    LET thousandths == 25600 * hi_buckets + 100 * tenths_remainder
    IN  (thousandths + 50) \div 100

InitDose ==
    /\ dose \in [in : 0..MaxDoseIn, err : {"pending"}, hi : {0}, lo : {0}]
    /\ given = 0 /\ built = NotBuilt /\ gen = IdleGen /\ msgId = InitialMsgId
    /\ wire = <<>>
    /\ sess = 0 /\ tasks = 0 /\ ble = 0 /\ hist = 0 /\ run = 0

\* a caller applies _split_ml_25_6 to the input
SplitMl ==
    /\ dose.err = "pending"
    /\ LET r == split_ml_25_6(dose.in)
       IN  dose' = [dose EXCEPT !.err = r.err, !.hi = r.hi, !.lo = r.lo]
    /\ UNCHANGED <<given, built, gen, msgId, wire>>
    /\ UNCHANGED engineVars

NextDose == SplitMl

SpecDose == InitDose /\ [][NextDose]_vars

\* the input is a multiple of 0.1 mL inside [0.2, 999.9]
DoseInGrid ==
    /\ dose.in % 10 = 0
    /\ dose.in \div 10 >= ML_MIN_TENTHS
    /\ dose.in \div 10 <= ML_MAX_TENTHS

\* C3: for every ml in [0.2, 999.9] at 0.1 granularity the encoder returns a
\* pair (hi, lo) of bytes with hi*256 + lo = tenths(ml), which ml_from_25_6
\* decodes back to ml
C3_DoseRoundTrip ==
    (dose.err # "pending" /\ DoseInGrid) =>
        /\ dose.err = "none"
        /\ dose.hi \in Byte /\ dose.lo \in Byte
        /\ dose.hi * 256 + dose.lo = dose.in \div 10
        /\ ml_from_25_6(dose.hi, dose.lo) = dose.in \div 10

\* C22: the dose encoder returns a pair exactly for the inputs inside
\* [0.2, 999.9] mL (inputs in hundredths) and raises for every other input
C22_RejectsOutOfRange ==
    (dose.err # "pending") =>
        (dose.err = "none" <=> (dose.in >= 20 /\ dose.in <= 99990))

\* 999.9 mL encoded as (39, 15)
C3_Witness ==
    /\ dose.err = "none"
    /\ dose.in = 99990
    /\ dose.hi = 39 /\ dose.lo = 15
(***************************************************************************)
(* Spec: the connection and dispatch engine (BaseDevice, DoserDevice)      *)
(*                                                                         *)
(* asyncio runs one coroutine at a time: `run` names the task that is      *)
(* running, and a task gives the loop back (run = 0) only where the code   *)
(* awaits something that suspends (a held lock, the transport, a sleep).   *)
(***************************************************************************)
NumCallers == 2

MaxCalls == 2

MaxFrames == 2

MaxConnects == 2

MaxFaults == 2

MaxDrops == 1

DEFAULT_ATTEMPTS == 3

Callers == 1..NumCallers

\* the task asyncio.create_task(self._execute_timed_disconnect()) creates
TimerTask == NumCallers + 1

TaskIds == 1..(NumCallers + 1)

IdleTask ==
    [op |-> "none", pc |-> "idle", ret |-> "none", frames |-> 0, idx |-> 0,
     attempt |-> 0, faults |-> 0, done |-> <<>>, client |-> 0, rc |-> FALSE,
     nc |-> 0, how |-> "none", err |-> "none", result |-> "none"]

InitSess ==
    [client |-> 0, read_char |-> FALSE, write_char |-> FALSE,
     expected_disconnect |-> FALSE, timer |-> FALSE,
     notify_active |-> FALSE, callbacks |-> <<>>,
     operation_lock |-> 0, operation_waiters |-> <<>>,
     connect_lock |-> 0, connect_waiters |-> <<>>]

Init ==
    /\ sess = InitSess
    /\ tasks = [t \in TaskIds |-> IdleTask]
    /\ ble = [clients |-> <<>>, inflight |-> {}, faults |-> 0, drops |-> 0]
    /\ hist = [establish |-> 0, lost |-> 0, calls |-> 0]
    /\ run = 0
    /\ given = 0 /\ built = NotBuilt /\ gen = IdleGen /\ msgId = InitialMsgId
    /\ wire = <<>> /\ dose = IdleDose

\* client.is_connected
IsConnected(c) == c # 0 /\ ble.clients[c].connected

\* self._client and self._client.is_connected
Live == IsConnected(sess.client)

\* BaseDevice._reset_disconnect_timer
reset_disconnect_timer_noarm(s) ==
    [s EXCEPT !.expected_disconnect = FALSE]

reset_disconnect_timer(s) ==
    [s EXCEPT !.timer = TRUE, !.expected_disconnect = FALSE]

\* asyncio.Lock.release: the first waiter gets the lock
ReleaseConnect(s) ==
    IF s.connect_waiters = <<>>
    THEN [s EXCEPT !.connect_lock = 0]
    ELSE [s EXCEPT !.connect_lock = Head(s.connect_waiters),
                   !.connect_waiters = Tail(s.connect_waiters)]

ReleaseOperation(s) ==
    IF s.operation_waiters = <<>>
    THEN [s EXCEPT !.operation_lock = 0]
    ELSE [s EXCEPT !.operation_lock = Head(s.operation_waiters),
                   !.operation_waiters = Tail(s.operation_waiters)]

\* the call of task t ends (it returns, or its exception reaches the caller)
Finished(t, result) ==
    [tasks EXCEPT ![t] = [IdleTask EXCEPT !.result = result]]

At(t, pc) == run = t /\ tasks[t].pc = pc

\* the loop is idle and resumes task t, which was suspended at pc
Resumes(t, pc) == run = 0 /\ tasks[t].pc = pc

EntryPc(op) == IF op = "disconnect" THEN "d_lock" ELSE "ec_check"

ReturnPc(op) ==
    CASE op = "send" -> "s_lock"
      [] op = "connect" -> "c_done"
      [] op = "totals" -> "t_connected"
      [] OTHER -> "x_done"

\* a caller starts _send_command(frames), connect(), disconnect() or
\* read_daily_totals()
StartCall(t, op, n) ==
    /\ t \in Callers
    /\ Resumes(t, "idle")
    /\ hist.calls < MaxCalls
    /\ (op = "send") = (n > 0)
    /\ tasks' = [tasks EXCEPT ![t] =
                    [IdleTask EXCEPT !.op = op, !.pc = EntryPc(op),
                                     !.ret = ReturnPc(op), !.frames = n,
                                     !.attempt = IF op = "send" THEN 1 ELSE 0,
                                     !.faults = 0]]
    /\ run' = t
    /\ hist' = [hist EXCEPT !.calls = @ + 1]
    /\ UNCHANGED <<sess, ble>>
    /\ UNCHANGED codecVars

(***************************************************************************)
(* BaseDevice._ensure_connected                                            *)
(***************************************************************************)
\* the fast path, else `async with self._connect_lock`
EnsureCheck(t) ==
    /\ At(t, "ec_check")
    /\ IF Live
       THEN /\ sess' = reset_disconnect_timer(sess)
            /\ tasks' = [tasks EXCEPT ![t].pc = tasks[t].ret,
                                      ![t].how = "fast"]
            /\ run' = t
       ELSE IF sess.connect_lock = 0
       THEN /\ sess' = [sess EXCEPT !.connect_lock = t]
            /\ tasks' = [tasks EXCEPT ![t].pc = "ec_locked"]
            /\ run' = t
       ELSE /\ sess' = [sess EXCEPT !.connect_waiters = Append(@, t)]
            /\ tasks' = [tasks EXCEPT ![t].pc = "ec_wait"]
            /\ run' = 0
    /\ UNCHANGED <<ble, hist>>
    /\ UNCHANGED codecVars

EnsureLockGranted(t) ==
    /\ Resumes(t, "ec_wait")
    /\ sess.connect_lock = t
    /\ tasks' = [tasks EXCEPT ![t].pc = "ec_locked"]
    /\ run' = t
    /\ UNCHANGED <<sess, ble, hist>>
    /\ UNCHANGED codecVars

\* the re-check under the lock: a connect attempt is needed
NeedsConnect_norecheck == TRUE

NeedsConnect == ~Live

\* under the lock: the re-check, else await establish_connection(...)
EnsureLocked(t) ==
    /\ At(t, "ec_locked")
    /\ IF ~NeedsConnect
       THEN /\ sess' = ReleaseConnect(reset_disconnect_timer(sess))
            /\ tasks' = [tasks EXCEPT ![t].pc = tasks[t].ret,
                                      ![t].how = "recheck"]
            /\ run' = t
            /\ hist' = hist
       ELSE /\ sess' = sess
            /\ tasks' = [tasks EXCEPT ![t].pc = "ec_establishing"]
            /\ run' = 0
            /\ hist' = [hist EXCEPT !.establish = @ + 1]
    /\ UNCHANGED ble
    /\ UNCHANGED codecVars

\* establish_connection returned a connected client; the characteristics
\* are resolved (r, w: the service has the TX / the RX characteristic)
EstablishOk(t, r, w) ==
    /\ Resumes(t, "ec_establishing")
    /\ Len(ble.clients) < MaxConnects
    /\ LET c        == Len(ble.clients) + 1
           rd       == r \/ sess.read_char
           wr       == w \/ sess.write_char
           resolved == rd /\ wr
           s1       == [sess EXCEPT !.client = c, !.read_char = rd,
                                    !.write_char = wr]
       IN  /\ ble' = [ble EXCEPT !.clients =
                         Append(@, [connected |-> TRUE, notifying |-> FALSE])]
           /\ sess' = ReleaseConnect(reset_disconnect_timer(s1))
           /\ IF resolved
              THEN /\ tasks' = [tasks EXCEPT ![t].pc = tasks[t].ret,
                                             ![t].how = "established"]
                   /\ run' = t
              ELSE /\ tasks' = Finished(t, "CharacteristicMissingError")
                   /\ run' = 0
    /\ UNCHANGED hist
    /\ UNCHANGED codecVars

\* establish_connection raised (device not found, out of range)
EstablishFail(t) ==
    /\ Resumes(t, "ec_establishing")
    /\ sess' = ReleaseConnect(sess)
    /\ tasks' = Finished(t, "BleakNotFoundError")
    /\ run' = 0
    /\ hist' = [hist EXCEPT !.lost = @ + 1]
    /\ UNCHANGED ble
    /\ UNCHANGED codecVars

\* BaseDevice.connect returns self._client
ConnectDone(t) ==
    /\ At(t, "c_done")
    /\ tasks' = Finished(t, "ok")
    /\ run' = 0
    /\ UNCHANGED <<sess, ble, hist>>
    /\ UNCHANGED codecVars

(***************************************************************************)
(* BaseDevice._execute_disconnect                                          *)
(***************************************************************************)
DisconnectLock(t) ==
    /\ At(t, "d_lock")
    /\ IF sess.connect_lock = 0
       THEN /\ sess' = [sess EXCEPT !.connect_lock = t]
            /\ tasks' = [tasks EXCEPT ![t].pc = "d_body"]
            /\ run' = t
       ELSE /\ sess' = [sess EXCEPT !.connect_waiters = Append(@, t)]
            /\ tasks' = [tasks EXCEPT ![t].pc = "d_wait"]
            /\ run' = 0
    /\ UNCHANGED <<ble, hist>>
    /\ UNCHANGED codecVars

DisconnectLockGranted(t) ==
    /\ Resumes(t, "d_wait")
    /\ sess.connect_lock = t
    /\ tasks' = [tasks EXCEPT ![t].pc = "d_body"]
    /\ run' = t
    /\ UNCHANGED <<sess, ble, hist>>
    /\ UNCHANGED codecVars

\* the assignments _execute_disconnect makes before it awaits anything
ClearedSession_keepchars(s) ==
    [s EXCEPT !.expected_disconnect = TRUE, !.client = 0,
              !.callbacks = <<>>, !.notify_active = FALSE]

ClearedSession_keepclient(s) ==
    [s EXCEPT !.expected_disconnect = TRUE,
              !.read_char = FALSE, !.write_char = FALSE,
              !.callbacks = <<>>, !.notify_active = FALSE]

ClearedSession_notexpected(s) ==
    [s EXCEPT !.client = 0,
              !.read_char = FALSE, !.write_char = FALSE,
              !.callbacks = <<>>, !.notify_active = FALSE]

ClearedSession(s) ==
    [s EXCEPT !.expected_disconnect = TRUE, !.client = 0,
              !.read_char = FALSE, !.write_char = FALSE,
              !.callbacks = <<>>, !.notify_active = FALSE]

\* the fields are cleared; a connected client is then closed
DisconnectBody(t) ==
    /\ At(t, "d_body")
    /\ LET client    == sess.client
           read_char == sess.read_char
           s1 == ClearedSession(sess)
       IN  IF IsConnected(client)
           THEN /\ sess' = s1
                /\ tasks' = [tasks EXCEPT ![t].client = client,
                                          ![t].rc = read_char,
                                          ![t].pc = IF read_char
                                                    THEN "d_stop_notify"
                                                    ELSE "d_closing"]
                /\ run' = 0
           ELSE /\ sess' = ReleaseConnect(s1)
                /\ tasks' = [tasks EXCEPT ![t].pc = tasks[t].ret]
                /\ run' = t
    /\ UNCHANGED <<ble, hist>>
    /\ UNCHANGED codecVars

\* client.stop_notify(read_char) returned or raised (the exception is
\* swallowed); client.disconnect() is awaited next
DisconnectStopNotifyDone(t) ==
    /\ Resumes(t, "d_stop_notify")
    /\ ble' = [ble EXCEPT !.clients[tasks[t].client].notifying = FALSE]
    /\ tasks' = [tasks EXCEPT ![t].pc = "d_closing"]
    /\ run' = 0
    /\ UNCHANGED <<sess, hist>>
    /\ UNCHANGED codecVars

\* client.disconnect() returned: the connection is closed, the lock released
DisconnectCloseDone(t) ==
    /\ Resumes(t, "d_closing")
    /\ LET c == tasks[t].client
       IN  /\ ble' = [ble EXCEPT !.clients[c].connected = FALSE,
                                 !.clients[c].notifying = FALSE]
           /\ hist' = [hist EXCEPT !.lost = IF IsConnected(c) THEN @ + 1 ELSE @]
    /\ sess' = ReleaseConnect(sess)
    /\ tasks' = [tasks EXCEPT ![t].pc = tasks[t].ret, ![t].client = 0,
                              ![t].rc = FALSE]
    /\ run' = t
    /\ UNCHANGED codecVars

\* BaseDevice.disconnect / _execute_timed_disconnect return
DisconnectDone(t) ==
    /\ At(t, "x_done")
    /\ tasks' = Finished(t, "ok")
    /\ run' = 0
    /\ UNCHANGED <<sess, ble, hist>>
    /\ UNCHANGED codecVars

\* BaseDevice._disconnected, the transport's close callback: the path it takes
disconnected(s) == IF s.expected_disconnect THEN "expected" ELSE "unexpected"

\* the idle timer expires: BaseDevice._disconnect creates the task
TimerFires ==
    /\ run = 0
    /\ sess.timer
    /\ tasks[TimerTask].pc = "idle"
    /\ sess' = [sess EXCEPT !.timer = FALSE]
    /\ tasks' = [tasks EXCEPT ![TimerTask] =
                    [IdleTask EXCEPT !.op = "timed", !.pc = "created",
                                     !.ret = "x_done"]]
    /\ UNCHANGED <<ble, hist, run>>
    /\ UNCHANGED codecVars

\* the loop starts _execute_timed_disconnect
TimedDisconnectStarts ==
    /\ Resumes(TimerTask, "created")
    /\ tasks' = [tasks EXCEPT ![TimerTask].pc = "d_lock"]
    /\ run' = TimerTask
    /\ UNCHANGED <<sess, ble, hist>>
    /\ UNCHANGED codecVars

\* the peripheral (or the stack) drops the connection
TransportDrops(c) ==
    /\ run = 0
    /\ c \in 1..Len(ble.clients)
    /\ ble.clients[c].connected
    /\ ble.drops < MaxDrops
    /\ ble' = [ble EXCEPT !.clients[c].connected = FALSE,
                          !.clients[c].notifying = FALSE,
                          !.drops = @ + 1]
    /\ hist' = [hist EXCEPT !.lost = @ + 1]
    /\ UNCHANGED <<sess, tasks, run>>
    /\ UNCHANGED codecVars

(***************************************************************************)
(* BaseDevice._send_command and what it calls                              *)
(***************************************************************************)
\* _send_command_while_connected: `async with self._operation_lock`
SendLock(t) ==
    /\ At(t, "s_lock")
    /\ IF sess.operation_lock = 0
       THEN /\ sess' = [sess EXCEPT !.operation_lock = t]
            /\ tasks' = [tasks EXCEPT ![t].pc = "s_attempt"]
            /\ run' = t
       ELSE /\ sess' = [sess EXCEPT !.operation_waiters = Append(@, t)]
            /\ tasks' = [tasks EXCEPT ![t].pc = "s_wait"]
            /\ run' = 0
    /\ UNCHANGED <<ble, hist>>
    /\ UNCHANGED codecVars

SendLockGranted(t) ==
    /\ Resumes(t, "s_wait")
    /\ sess.operation_lock = t
    /\ tasks' = [tasks EXCEPT ![t].pc = "s_attempt"]
    /\ run' = t
    /\ UNCHANGED <<sess, ble, hist>>
    /\ UNCHANGED codecVars

\* the write self._client.write_gatt_char(self._write_char, command, False)
WriteOf(t, i) == [task |-> t, client |-> sess.client, frame |-> i]

\* the frame the loop `for command in commands` takes after frame i
NextFrame_skip(i) == i + 2

NextFrame(i) == i + 1

\* one attempt of the retry wrapper: _send_command_locked calls
\* _execute_command_locked, which checks the session and starts the first write
SendAttempt(t) ==
    /\ At(t, "s_attempt")
    /\ IF sess.client = 0
       THEN \* assert self._client is not None
            /\ sess' = ReleaseOperation(sess)
            /\ tasks' = Finished(t, "AssertionError")
            /\ run' = 0
            /\ ble' = ble
       ELSE IF ~sess.read_char \/ ~sess.write_char
       THEN /\ sess' = ReleaseOperation(sess)
            /\ tasks' = Finished(t, "CharacteristicMissingError")
            /\ run' = 0
            /\ ble' = ble
       ELSE /\ sess' = sess
            /\ tasks' = [tasks EXCEPT ![t].pc = "s_writing",
                                      ![t].idx = NextFrame(0),
                                      ![t].done = <<>>]
            /\ run' = 0
            /\ ble' = [ble EXCEPT !.inflight = @ \cup {WriteOf(t, NextFrame(0))}]
    /\ UNCHANGED hist
    /\ UNCHANGED codecVars

TheWrite(t) == CHOOSE w \in ble.inflight : w.task = t

\* a write completed: the loop goes on with the next frame, or the call
\* returns after the last one
WriteOk(t) ==
    /\ Resumes(t, "s_writing")
    /\ IsConnected(TheWrite(t).client)
    /\ LET i    == tasks[t].idx
           rest == ble.inflight \ {TheWrite(t)}
       IN  IF NextFrame(i) > tasks[t].frames
           THEN /\ sess' = ReleaseOperation(sess)
                /\ tasks' = Finished(t, "ok")
                /\ run' = 0
                /\ ble' = [ble EXCEPT !.inflight = rest]
           ELSE IF sess.client = 0
           THEN \* self._client is None: AttributeError, caught by the
                \* retry wrapper only
                /\ sess' = sess
                /\ tasks' = [tasks EXCEPT ![t].pc = "s_raised",
                                          ![t].done = Append(@, i),
                                          ![t].err = "AttributeError"]
                /\ run' = t
                /\ ble' = [ble EXCEPT !.inflight = rest]
           ELSE IF ~sess.write_char
           THEN \* write_gatt_char(None, ...): BleakError, no write is made
                /\ sess' = sess
                /\ tasks' = [tasks EXCEPT ![t].pc = "d_lock",
                                          ![t].ret = "s_raised",
                                          ![t].done = Append(@, i),
                                          ![t].err = "BleakError"]
                /\ run' = t
                /\ ble' = [ble EXCEPT !.inflight = rest]
           ELSE /\ sess' = sess
                /\ tasks' = [tasks EXCEPT ![t].idx = NextFrame(i),
                                          ![t].done = Append(@, i)]
                /\ run' = 0
                /\ ble' = [ble EXCEPT !.inflight =
                                          rest \cup {WriteOf(t, NextFrame(i))}]
    /\ UNCHANGED hist
    /\ UNCHANGED codecVars

\* a write raised BleakDBusError (backoff sleep first) or another
\* BleakError; a write on a closed connection always raises
WriteFails(t, kind) ==
    /\ Resumes(t, "s_writing")
    /\ kind \in {"BleakDBusError", "BleakError"}
    /\ IF IsConnected(TheWrite(t).client)
       THEN /\ ble.faults < MaxFaults
            /\ ble' = [ble EXCEPT !.inflight = @ \ {TheWrite(t)},
                                  !.faults = @ + 1]
       ELSE /\ kind = "BleakError"
            /\ ble' = [ble EXCEPT !.inflight = @ \ {TheWrite(t)}]
    /\ IF kind = "BleakDBusError"
       THEN /\ tasks' = [tasks EXCEPT ![t].pc = "s_backoff", ![t].err = kind,
                                      ![t].faults = @ + 1]
            /\ run' = 0
       ELSE /\ tasks' = [tasks EXCEPT ![t].pc = "d_lock", ![t].ret = "s_raised",
                                      ![t].err = kind, ![t].faults = @ + 1]
            /\ run' = t
    /\ UNCHANGED <<sess, hist>>
    /\ UNCHANGED codecVars

\* asyncio.sleep(BLEAK_BACKOFF_TIME) is over: _execute_disconnect, then raise
BackoffDone(t) ==
    /\ Resumes(t, "s_backoff")
    /\ tasks' = [tasks EXCEPT ![t].pc = "d_lock", ![t].ret = "s_raised"]
    /\ run' = t
    /\ UNCHANGED <<sess, ble, hist>>
    /\ UNCHANGED codecVars

\* retry_bluetooth_connection_error(DEFAULT_ATTEMPTS): the exception of an
\* attempt reaches the wrapper, which sleeps and retries, or re-raises on
\* the last attempt
SendRaised(t) ==
    /\ At(t, "s_raised")
    /\ IF tasks[t].attempt = DEFAULT_ATTEMPTS
       THEN /\ sess' = ReleaseOperation(sess)
            /\ tasks' = Finished(t, tasks[t].err)
       ELSE /\ sess' = sess
            /\ tasks' = [tasks EXCEPT ![t].pc = "s_retry_sleep"]
    /\ run' = 0
    /\ UNCHANGED <<ble, hist>>
    /\ UNCHANGED codecVars

\* the wrapper's sleep is over: the next attempt calls _send_command_locked
RetrySleepDone(t) ==
    /\ Resumes(t, "s_retry_sleep")
    /\ tasks' = [tasks EXCEPT ![t].pc = "s_attempt", ![t].attempt = @ + 1,
                              ![t].err = "none"]
    /\ run' = t
    /\ UNCHANGED <<sess, ble, hist>>
    /\ UNCHANGED codecVars

(***************************************************************************)
(* DoserDevice.read_daily_totals                                           *)
(***************************************************************************)
\* client = await self.connect(); then start_notify_tx calls
\* _ensure_connected again
TotalsConnected(t) ==
    /\ At(t, "t_connected")
    /\ tasks' = [tasks EXCEPT ![t].client = sess.client, ![t].pc = "ec_check",
                              ![t].ret = "t_start_notify"]
    /\ run' = t
    /\ UNCHANGED <<sess, ble, hist>>
    /\ UNCHANGED codecVars

\* start_notify_tx after _ensure_connected
TotalsStartNotify(t) ==
    /\ At(t, "t_start_notify")
    /\ IF ~sess.read_char
       THEN /\ tasks' = Finished(t, "CharacteristicMissingError")
            /\ run' = 0
       ELSE IF sess.notify_active
       THEN /\ tasks' = [tasks EXCEPT ![t].pc = "t_add"]
            /\ run' = t
       ELSE /\ tasks' = [tasks EXCEPT ![t].pc = "t_subscribing",
                                      ![t].nc = sess.client]
            /\ run' = 0
    /\ UNCHANGED <<sess, ble, hist>>
    /\ UNCHANGED codecVars

\* self._client.start_notify(...) returned, or raised on a closed connection
TotalsSubscribed(t) ==
    /\ Resumes(t, "t_subscribing")
    /\ IF IsConnected(tasks[t].nc)
       THEN /\ ble' = [ble EXCEPT !.clients[tasks[t].nc].notifying = TRUE]
            /\ sess' = [sess EXCEPT !.notify_active = TRUE]
            /\ tasks' = [tasks EXCEPT ![t].pc = "t_add", ![t].nc = 0]
            /\ run' = t
       ELSE /\ ble' = ble
            /\ sess' = sess
            /\ tasks' = Finished(t, "BleakError")
            /\ run' = 0
    /\ UNCHANGED hist
    /\ UNCHANGED codecVars

\* add_notify_callback(_on_notify), then the query is written on the local
\* `client` with no lock taken: client.write_gatt_char(UART_RX, frame, True)
TotalsWrite(t) ==
    /\ At(t, "t_add")
    /\ sess' = [sess EXCEPT !.callbacks =
                   IF \E i \in 1..Len(@) : @[i] = t THEN @ ELSE Append(@, t)]
    /\ ble' = [ble EXCEPT !.inflight =
                   @ \cup {[task |-> t, client |-> tasks[t].client, frame |-> 1]}]
    /\ tasks' = [tasks EXCEPT ![t].pc = "t_writing", ![t].idx = 1]
    /\ run' = 0
    /\ UNCHANGED hist
    /\ UNCHANGED codecVars

\* the query was written: await asyncio.wait_for(got, timeout_s)
TotalsWriteOk(t) ==
    /\ Resumes(t, "t_writing")
    /\ IsConnected(TheWrite(t).client)
    /\ ble' = [ble EXCEPT !.inflight = @ \ {TheWrite(t)}]
    /\ tasks' = [tasks EXCEPT ![t].pc = "t_waiting"]
    /\ run' = 0
    /\ UNCHANGED <<sess, hist>>
    /\ UNCHANGED codecVars

\* the write raised: the first failure is answered by a second write (to
\* UART_TX), the second failure leaves through the finally block
TotalsWriteFails(t) ==
    /\ Resumes(t, "t_writing")
    /\ IF IsConnected(TheWrite(t).client)
       THEN /\ ble.faults < MaxFaults
            /\ ble' = [ble EXCEPT
                         !.inflight = IF tasks[t].idx = 1
                                      THEN (@ \ {TheWrite(t)}) \cup
                                           {[task |-> t, client |-> tasks[t].client,
                                             frame |-> 2]}
                                      ELSE @ \ {TheWrite(t)},
                         !.faults = @ + 1]
       ELSE ble' = [ble EXCEPT
                         !.inflight = IF tasks[t].idx = 1
                                      THEN (@ \ {TheWrite(t)}) \cup
                                           {[task |-> t, client |-> tasks[t].client,
                                             frame |-> 2]}
                                      ELSE @ \ {TheWrite(t)}]
    /\ IF tasks[t].idx = 1
       THEN /\ tasks' = [tasks EXCEPT ![t].idx = 2]
            /\ run' = 0
       ELSE /\ tasks' = [tasks EXCEPT ![t].pc = "t_finally",
                                      ![t].err = "BleakError"]
            /\ run' = t
    /\ UNCHANGED <<sess, hist>>
    /\ UNCHANGED codecVars

\* the future `got` of task t can still be resolved by its listener _on_notify
Pending(t) ==
    /\ tasks[t].pc \in {"t_writing", "t_waiting"}
    /\ tasks[t].err # "got"
    /\ \E i \in 1..Len(sess.callbacks) : sess.callbacks[i] = t

\* a totals frame is notified on a subscribed connection:
\* _notification_handler calls every registered listener, and each _on_notify
\* resolves its future
NotificationArrives ==
    /\ run = 0
    /\ \E c \in 1..Len(ble.clients) :
          ble.clients[c].connected /\ ble.clients[c].notifying
    /\ \E t \in TaskIds : Pending(t)
    /\ tasks' = [t \in TaskIds |->
                    IF Pending(t) THEN [tasks[t] EXCEPT !.err = "got"]
                                  ELSE tasks[t]]
    /\ UNCHANGED <<sess, ble, hist, run>>
    /\ UNCHANGED codecVars

\* wait_for(got, timeout) returns the payload
TotalsNotified(t) ==
    /\ Resumes(t, "t_waiting")
    /\ tasks[t].err = "got"
    /\ tasks' = [tasks EXCEPT ![t].pc = "t_finally", ![t].err = "none"]
    /\ run' = t
    /\ UNCHANGED <<sess, ble, hist>>
    /\ UNCHANGED codecVars

\* asyncio.TimeoutError: the call will return None
TotalsTimeout(t) ==
    /\ Resumes(t, "t_waiting")
    /\ tasks[t].err # "got"
    /\ tasks' = [tasks EXCEPT ![t].pc = "t_finally", ![t].err = "timeout"]
    /\ run' = t
    /\ UNCHANGED <<sess, ble, hist>>
    /\ UNCHANGED codecVars

RemoveCallback(cbs, t) == SelectSeq(cbs, LAMBDA x : x # t)

TotalsResult(t) ==
    CASE tasks[t].err = "none" -> "ok"
      [] tasks[t].err = "timeout" -> "None"
      [] OTHER -> tasks[t].err

\* finally: remove_notify_callback(_on_notify) and stop_notify_tx()
TotalsFinally(t) ==
    /\ At(t, "t_finally")
    /\ LET s1 == [sess EXCEPT !.callbacks = RemoveCallback(@, t)]
       IN  IF ~sess.notify_active
           THEN /\ sess' = s1
                /\ tasks' = Finished(t, TotalsResult(t))
                /\ run' = 0
           ELSE IF Live /\ sess.read_char
           THEN /\ sess' = s1
                /\ tasks' = [tasks EXCEPT ![t].pc = "t_unsubscribing",
                                          ![t].nc = sess.client]
                /\ run' = 0
           ELSE /\ sess' = [s1 EXCEPT !.notify_active = FALSE]
                /\ tasks' = Finished(t, TotalsResult(t))
                /\ run' = 0
    /\ UNCHANGED <<ble, hist>>
    /\ UNCHANGED codecVars

\* self._client.stop_notify(...) returned or raised (swallowed)
TotalsUnsubscribed(t) ==
    /\ Resumes(t, "t_unsubscribing")
    /\ ble' = [ble EXCEPT !.clients[tasks[t].nc].notifying = FALSE]
    /\ sess' = [sess EXCEPT !.notify_active = FALSE]
    /\ tasks' = Finished(t, TotalsResult(t))
    /\ run' = 0
    /\ UNCHANGED hist
    /\ UNCHANGED codecVars

Ops == {"send", "connect", "disconnect", "totals"}

Next ==
    \/ \E t \in Callers, op \in Ops, n \in 0..MaxFrames : StartCall(t, op, n)
    \/ \E t \in TaskIds : EnsureCheck(t)
    \/ \E t \in TaskIds : EnsureLockGranted(t)
    \/ \E t \in TaskIds : EnsureLocked(t)
    \/ \E t \in TaskIds, r \in BOOLEAN, w \in BOOLEAN : EstablishOk(t, r, w)
    \/ \E t \in TaskIds : EstablishFail(t)
    \/ \E t \in TaskIds : ConnectDone(t)
    \/ \E t \in TaskIds : DisconnectLock(t)
    \/ \E t \in TaskIds : DisconnectLockGranted(t)
    \/ \E t \in TaskIds : DisconnectBody(t)
    \/ \E t \in TaskIds : DisconnectStopNotifyDone(t)
    \/ \E t \in TaskIds : DisconnectCloseDone(t)
    \/ \E t \in TaskIds : DisconnectDone(t)
    \/ TimerFires
    \/ TimedDisconnectStarts
    \/ \E c \in 1..MaxConnects : TransportDrops(c)
    \/ \E t \in TaskIds : SendLock(t)
    \/ \E t \in TaskIds : SendLockGranted(t)
    \/ \E t \in TaskIds : SendAttempt(t)
    \/ \E t \in TaskIds : WriteOk(t)
    \/ \E t \in TaskIds, k \in {"BleakDBusError", "BleakError"} : WriteFails(t, k)
    \/ \E t \in TaskIds : BackoffDone(t)
    \/ \E t \in TaskIds : SendRaised(t)
    \/ \E t \in TaskIds : RetrySleepDone(t)
    \/ \E t \in TaskIds : TotalsConnected(t)
    \/ \E t \in TaskIds : TotalsStartNotify(t)
    \/ \E t \in TaskIds : TotalsSubscribed(t)
    \/ \E t \in TaskIds : TotalsWrite(t)
    \/ \E t \in TaskIds : TotalsWriteOk(t)
    \/ \E t \in TaskIds : TotalsWriteFails(t)
    \/ NotificationArrives
    \/ \E t \in TaskIds : TotalsNotified(t)
    \/ \E t \in TaskIds : TotalsTimeout(t)
    \/ \E t \in TaskIds : TotalsFinally(t)
    \/ \E t \in TaskIds : TotalsUnsubscribed(t)

Spec == Init /\ [][Next]_vars

(***************************************************************************)
(* Properties of the connection engine                                     *)
(***************************************************************************)
WritesOf(t) == {w \in ble.inflight : w.task = t}

Connected == {c \in 1..Len(ble.clients) : ble.clients[c].connected}

\* C6: command dispatch on one session is fully serialized: whatever the
\* callers (sendCommand, the totals probe read_daily_totals), at most one
\* write to the transport is in flight at any time.
C6_OneWriteInFlight == Cardinality(ble.inflight) <= 1

\* C7: the frames of one sendCommand call are written in list order, each
\* next write starting only after the previous one completed: the call has at
\* most one write in flight, the writes completed so far are frames 1..k in
\* that order and the write in flight is frame k+1.
C7_FramesInOrder ==
    \A t \in TaskIds :
        tasks[t].op = "send" =>
            /\ Cardinality(WritesOf(t)) <= 1
            /\ \A k \in 1..Len(tasks[t].done) : tasks[t].done[k] = k
            /\ Len(tasks[t].done) <= tasks[t].frames
            /\ \A w \in WritesOf(t) :
                  /\ tasks[t].pc = "s_writing"
                  /\ w.frame = Len(tasks[t].done) + 1
                  /\ w.frame <= tasks[t].frames

C7_Witness ==
    \E t \in TaskIds :
        /\ tasks[t].op = "send" /\ tasks[t].pc = "s_writing"
        /\ tasks[t].frames = 2 /\ tasks[t].done = <<1>>
        /\ \E w \in ble.inflight : w.task = t /\ w.frame = 2

\* C8: in every reachable state a session has at most one live transport
\* connection, and every connected client is referenced: it is the session's
\* client, or the client _execute_disconnect is closing under the connect
\* lock.
C8_OneLiveConnection ==
    /\ Cardinality(Connected) <= 1
    /\ \A c \in Connected :
          \/ sess.client = c
          \/ \E t \in TaskIds :
                /\ tasks[t].client = c
                /\ tasks[t].pc \in {"d_stop_notify", "d_closing"}
                /\ sess.connect_lock = t

C8_Witness ==
    /\ Len(ble.clients) = 2
    /\ ~ble.clients[1].connected
    /\ Live
    /\ sess.client = 2

\* _ensure_connected returns on its fast path
FastPath(t) ==
    /\ run = t
    /\ tasks[t].pc = "ec_check"
    /\ Live
    /\ tasks'[t] # tasks[t]

\* C9: connect attempts coalesce: a connect attempt is made only when no
\* connection is there (the first attempt apart, every attempt follows a lost
\* connection or a failed attempt), so concurrent callers on a Disconnected
\* session make one attempt; and on a Connected session with a live transport
\* _ensure_connected makes no attempt, re-arms the idle deadline and returns.
C9_ConnectCoalesces ==
    /\ [](hist.establish <= 1 + hist.lost)
    /\ [][\A t \in TaskIds :
             FastPath(t) =>
                /\ hist'.establish = hist.establish
                /\ sess'.timer
                /\ sess'.client = sess.client
                /\ tasks'[t].pc = tasks[t].ret]_vars

C9_Witness ==
    /\ hist.establish = 1
    /\ hist.lost = 0
    /\ Live
    /\ \E t, u \in Callers :
          /\ t # u
          /\ tasks[t].how = "established"
          /\ tasks[u].how = "recheck"

\* a sendCommand call returns to its caller in this step
SendReturns(t) ==
    /\ tasks[t].op = "send"
    /\ tasks[t].pc # "idle"
    /\ tasks'[t].pc = "idle"

\* C10: a sendCommand call (the only activity on the session) whose writes
\* met a transient transport error on fewer attempts than the retry budget
\* allows completes successfully and leaves the session Connected.
C10_RetrySucceeds ==
    [][\A t \in Callers :
          (/\ SendReturns(t)
           /\ hist.calls = 1 /\ ble.drops = 0 /\ tasks[TimerTask].pc = "idle"
           /\ tasks[t].faults >= 1
           /\ tasks[t].faults < DEFAULT_ATTEMPTS)
          => (tasks'[t].result = "ok" /\ Live')]_vars

\* C11: when a write of sendCommand raised a transient transport error, the
\* session is torn down (client and both characteristics cleared) by the time
\* the error leaves the attempt, and one call makes at most DEFAULT_ATTEMPTS
\* attempts, each meeting at most one write error.
C11_TeardownBeforeRaise ==
    \A t \in TaskIds :
        /\ tasks[t].pc = "s_raised" =>
              /\ sess.client = 0
              /\ ~sess.read_char
              /\ ~sess.write_char
        /\ tasks[t].attempt <= DEFAULT_ATTEMPTS
        /\ tasks[t].faults <= tasks[t].attempt

C11_Witness ==
    \E t \in TaskIds :
        /\ tasks[t].pc = "s_raised"
        /\ tasks[t].err = "BleakDBusError"
        /\ tasks[t].faults = 1
        /\ sess.client = 0

\* _ensure_connected leaves with CharacteristicMissingError in this step
EnsureFailsUnresolved(t) ==
    /\ tasks[t].pc = "ec_establishing"
    /\ tasks'[t].pc = "idle"
    /\ tasks'[t].result = "CharacteristicMissingError"

\* C12: when _ensure_connected established the transport but a
\* characteristic could not be resolved, it fails with CharacteristicMissing
\* and the session is Disconnected: no live client remains on the session (the
\* next _ensure_connected cannot take the fast path).
C12_UnresolvedForcesDisconnected ==
    [][\A t \in TaskIds :
          EnsureFailsUnresolved(t) => ~Live']_vars

CallersIdle == \A t \in Callers : tasks[t].pc = "idle"

\* _ensure_connected returns to its caller without an exception in this step
EnsureReturns(t) ==
    /\ tasks[t].pc \in {"ec_check", "ec_locked", "ec_establishing"}
    /\ tasks'[t].pc = tasks[t].ret

\* C13: the disconnect the idle timer starts is graceful: while it closes the
\* transport the close is marked expected, and when it is done with no
\* command in flight the session is Disconnected with the characteristic
\* handles and the listener list cleared; and every successful
\* _ensure_connected leaves the (single) idle deadline armed.
C13_IdleDisconnectGraceful ==
    /\ [](tasks[TimerTask].pc \in {"d_stop_notify", "d_closing"} =>
             disconnected(sess) = "expected")
    /\ []((tasks[TimerTask].pc = "x_done" /\ CallersIdle) =>
             /\ sess.client = 0
             /\ ~sess.read_char /\ ~sess.write_char
             /\ sess.callbacks = <<>>
             /\ ~sess.notify_active
             /\ sess.expected_disconnect)
    /\ [][\A t \in TaskIds : EnsureReturns(t) => sess'.timer]_vars

C13_Witness ==
    /\ tasks[TimerTask].pc = "x_done"
    /\ CallersIdle
    /\ hist.calls = 1 /\ ble.drops = 0 /\ ble.faults = 0
    /\ Len(ble.clients) = 1
    /\ ~ble.clients[1].connected

\* client.disconnect() of _execute_disconnect closes a live transport in this
\* step: the transport calls _disconnected with the session as it is now
EngineCloses(t) ==
    /\ tasks[t].pc = "d_closing"
    /\ tasks'[t].pc # "d_closing"
    /\ IsConnected(tasks[t].client)

\* C14: every transport close the engine initiated itself (disconnect(), idle
\* expiry, teardown) is seen by the close callback with the
\* expected-disconnect flag set, whatever _ensure_connected calls run
\* concurrently; the unexpected path is left to closes the engine did not
\* initiate.
C14_OwnCloseExpected ==
    [][\A t \in TaskIds :
          EngineCloses(t) => disconnected(sess) = "expected"]_vars

C14_Witness ==
    \E t \in TaskIds, u \in Callers :
        /\ run = t /\ tasks[t].pc \in {"x_done", "s_raised"}
        /\ tasks[u].pc = "ec_wait" /\ sess.connect_lock = u
        /\ Len(ble.clients) = 1 /\ ~ble.clients[1].connected
        /\ ble.drops = 0
        /\ sess.expected_disconnect

\* disconnect() is about to return to its caller
DisconnectReturns(t) ==
    /\ tasks[t].op = "disconnect"
    /\ tasks[t].pc = "x_done"

\* C15: after disconnect() returns, from any session state, the session is
\* Disconnected: client and both characteristics cleared, the listener list
\* empty and notifications marked inactive; stop_notify and disconnect are
\* called on the transport only for a client that was live.
C15_DisconnectClears ==
    \A t \in TaskIds :
        /\ DisconnectReturns(t) =>
              /\ sess.client = 0
              /\ ~sess.read_char /\ ~sess.write_char
              /\ sess.callbacks = <<>>
              /\ ~sess.notify_active
        /\ tasks[t].pc \in {"d_stop_notify", "d_closing"} => tasks[t].client # 0
        /\ tasks[t].pc = "d_stop_notify" => tasks[t].rc

\* the start_notify calls made on connection c that no stop_notify followed:
\* those still awaited and the one that set the subscription up
Subscriptions(c) ==
    Cardinality({t \in TaskIds : tasks[t].pc = "t_subscribing" /\ tasks[t].nc = c})
    + (IF ble.clients[c].notifying THEN 1 ELSE 0)

\* stop_notify_tx runs in this step of task t
StopNotifyRuns(t) ==
    /\ run = t
    /\ tasks[t].pc = "t_finally"
    /\ tasks'[t] # tasks[t]

\* C16: start_notify_tx and stop_notify_tx are idempotent: on one connection
\* the transport subscription is made once for any sequence or interleaving
\* of start_notify_tx calls with no stop in between, and stop_notify_tx on a
\* session whose notifications are not active makes no transport call.
C16_NotifyIdempotent ==
    /\ [](\A c \in 1..Len(ble.clients) : Subscriptions(c) <= 1)
    /\ [][\A t \in TaskIds :
             (StopNotifyRuns(t) /\ ~sess.notify_active) =>
                 (tasks'[t].pc = "idle" /\ ble' = ble)]_vars

(***************************************************************************)
(* SpecFanout: the listener list and the notification fan-out.  `sess`      *)
(* holds the listener list, `hist` the last operation and what it          *)
(* delivered; listeners are numbered, a listener may raise when it is      *)
(* called and may detach itself when it is called.                         *)
(***************************************************************************)
NumListeners == 3

Listeners == 1..NumListeners

Contains(cbs, cb) == \E i \in 1..Len(cbs) : cbs[i] = cb

\* BaseDevice.add_notify_callback
add_notify_callback(cbs, cb) ==
    IF Contains(cbs, cb) THEN cbs ELSE Append(cbs, cb)

\* BaseDevice.remove_notify_callback: list.remove takes the first occurrence
\* out, ValueError is swallowed
remove_notify_callback(cbs, cb) ==
    IF ~Contains(cbs, cb)
    THEN cbs
    ELSE LET k == CHOOSE i \in 1..Len(cbs) :
                     /\ cbs[i] = cb
                     /\ \A j \in 1..(i - 1) : cbs[j] # cb
         IN  SubSeq(cbs, 1, k - 1) \o SubSeq(cbs, k + 1, Len(cbs))

RECURSIVE handler_abort_from(_, _, _)
handler_abort_from(snapshot, i, raising) ==
    IF i > Len(snapshot)
    THEN <<>>
    ELSE IF snapshot[i] \in raising
    THEN <<[cb |-> snapshot[i], raised |-> TRUE]>>
    ELSE <<[cb |-> snapshot[i], raised |-> FALSE]>>
         \o handler_abort_from(snapshot, i + 1, raising)

notification_handler_abort(cbs, raising) == handler_abort_from(cbs, 1, raising)

\* BaseDevice._notification_handler: `for cb in tuple(self._notify_callbacks)`
\* with each call in its own try/except; the result is the calls made
RECURSIVE handler_from(_, _, _)
handler_from(snapshot, i, raising) ==
    IF i > Len(snapshot)
    THEN <<>>
    ELSE <<[cb |-> snapshot[i], raised |-> snapshot[i] \in raising]>>
         \o handler_from(snapshot, i + 1, raising)

notification_handler(cbs, raising) == handler_from(cbs, 1, raising)

\* the listeners in `detaching` call remove_notify_callback on themselves
RECURSIVE DetachAll(_, _)
DetachAll(cbs, detaching) ==
    IF detaching = {}
    THEN cbs
    ELSE LET cb == CHOOSE x \in detaching : TRUE
         IN  DetachAll(remove_notify_callback(cbs, cb), detaching \ {cb})

InitFanout ==
    /\ sess = [callbacks |-> <<>>]
    /\ hist = [op |-> "none", arg |-> 0, before |-> <<>>, log |-> <<>>]
    /\ tasks = 0 /\ ble = 0 /\ run = 0
    /\ given = 0 /\ built = NotBuilt /\ gen = IdleGen /\ msgId = InitialMsgId
    /\ wire = <<>> /\ dose = IdleDose

AddListener(cb) ==
    /\ sess' = [sess EXCEPT !.callbacks = add_notify_callback(@, cb)]
    /\ hist' = [op |-> "add", arg |-> cb, before |-> sess.callbacks, log |-> <<>>]
    /\ UNCHANGED <<tasks, ble, run>>
    /\ UNCHANGED codecVars

RemoveListener(cb) ==
    /\ sess' = [sess EXCEPT !.callbacks = remove_notify_callback(@, cb)]
    /\ hist' = [op |-> "remove", arg |-> cb, before |-> sess.callbacks, log |-> <<>>]
    /\ UNCHANGED <<tasks, ble, run>>
    /\ UNCHANGED codecVars

\* a notification arrives: _notification_handler runs to its end
Notify(raising, detaching) ==
    /\ hist' = [op |-> "notify", arg |-> 0, before |-> sess.callbacks,
                log |-> notification_handler(sess.callbacks, raising)]
    /\ sess' = [sess EXCEPT !.callbacks =
                   DetachAll(@, {cb \in detaching : Contains(sess.callbacks, cb)})]
    /\ UNCHANGED <<tasks, ble, run>>
    /\ UNCHANGED codecVars

NextFanout ==
    \/ \E cb \in Listeners : AddListener(cb)
    \/ \E cb \in Listeners : RemoveListener(cb)
    \/ \E raising \in SUBSET Listeners, detaching \in SUBSET Listeners :
          Notify(raising, detaching)

SpecFanout == InitFanout /\ [][NextFanout]_vars

\* C17: each notification is delivered exactly once to every listener
\* registered when it arrives, in registration order, whether or not a
\* listener before it raised; registering a registered callback and removing
\* an unregistered one change nothing, and no callback is registered twice.
C17_FanOut ==
    /\ \A i, j \in 1..Len(sess.callbacks) :
          sess.callbacks[i] = sess.callbacks[j] => i = j
    /\ hist.op = "notify" =>
          /\ Len(hist.log) = Len(hist.before)
          /\ \A i \in 1..Len(hist.before) : hist.log[i].cb = hist.before[i]
    /\ (hist.op = "add" /\ Contains(hist.before, hist.arg)) =>
          sess.callbacks = hist.before
    /\ (hist.op = "add" /\ ~Contains(hist.before, hist.arg)) =>
          sess.callbacks = Append(hist.before, hist.arg)
    /\ (hist.op = "remove" /\ ~Contains(hist.before, hist.arg)) =>
          sess.callbacks = hist.before

C17_Witness ==
    /\ hist.op = "notify"
    /\ Len(hist.log) = 3
    /\ hist.log[1].raised
    /\ ~hist.log[3].raised
    /\ hist.log[1].cb = 2

\* task t is a listener of the live session, waiting for notifications that
\* the transport is subscribed to deliver
Listening(t) ==
    /\ tasks[t].pc = "t_waiting"
    /\ Pending(t)
    /\ Live
    /\ ble.clients[sess.client].notifying

\* the probe of task u detaches its listener and returns in this step
ProbeDetaches(u) ==
    /\ tasks[u].op = "totals"
    /\ tasks[u].pc \in {"t_finally", "t_unsubscribing"}
    /\ tasks'[u].pc = "idle"

\* C18: a probe that detaches its own listener leaves the transport
\* subscription active and the other listeners attached: delivery to a
\* longer-lived listener of the session goes on.
C18_DetachKeepsSubscription ==
    [][\A t, u \in TaskIds :
          (t # u /\ Listening(t) /\ ProbeDetaches(u)) =>
              /\ Contains(sess'.callbacks, t)
              /\ ble'.clients[sess.client].notifying]_vars

\* read_daily_totals returns None (its wait timed out) in this step
TotalsTimesOut(t) ==
    /\ tasks[t].op = "totals"
    /\ tasks[t].pc # "idle"
    /\ tasks'[t].pc = "idle"
    /\ tasks'[t].result = "None"

\* C19: when the timed wait of read_daily_totals expires without a totals
\* frame the call resolves to None, and the transport notification
\* subscription of the live connection is still active afterwards.
C19_TimeoutKeepsSubscription ==
    [][\A t \in TaskIds :
          (/\ tasks[t].pc = "t_waiting" /\ tasks'[t].pc = "t_finally"
           /\ tasks[t].err # "got") => tasks'[t].err = "timeout"]_vars
    /\ [][\A t \in TaskIds :
          (TotalsTimesOut(t) /\ Live') =>
              ble'.clients[sess'.client].notifying]_vars

\* task t waits in wait_for(got, timeout) for a notification that has not
\* arrived, and _execute_disconnect has cleared the listener list since the
\* task registered its listener
WaitsDisconnected(t) ==
    /\ tasks[t].pc = "t_waiting"
    /\ tasks[t].err # "got"
    /\ ~Contains(sess.callbacks, t)

\* _execute_disconnect is running in some task
Disconnecting ==
    \E u \in TaskIds :
        tasks[u].pc \in {"d_lock", "d_wait", "d_body", "d_stop_notify", "d_closing"}

\* C20: a disconnect (explicit, idle expiry, teardown) resolves a pending
\* wait for a notification with a failure: once the disconnect is over no
\* wait of that connection is still pending, and such a wait never ends by
\* its own timeout.
C20_DisconnectFailsWait ==
    /\ [](\A t \in TaskIds : WaitsDisconnected(t) => Disconnecting)
    /\ [][\A t \in TaskIds :
             (WaitsDisconnected(t) /\ ~Disconnecting /\ tasks'[t].pc = "t_finally") =>
                 tasks'[t].err \notin {"none", "timeout"}]_vars

(***************************************************************************)
(* SpecWeekdays: the weekday mask encoder (doser_device.py) and decoder   *)
(* (protocol.py) applied to day lists                                      *)
(***************************************************************************)
\* a | b on bytes
Or(a, b) ==
    LET ob(k) == IF Bit(a, k) + Bit(b, k) > 0 THEN k ELSE 0
    IN  ob(1) + ob(2) + ob(4) + ob(8) + ob(16) + ob(32) + ob(64) + ob(128)

\* a & b on bytes
And(a, b) ==
    LET ab(k) == IF Bit(a, k) + Bit(b, k) = 2 THEN k ELSE 0
    IN  ab(1) + ab(2) + ab(4) + ab(8) + ab(16) + ab(32) + ab(64) + ab(128)

\* the seven day names in the order of the tables
Weekdays ==
    <<"monday", "tuesday", "wednesday", "thursday", "friday", "saturday",
      "sunday">>

\* what a caller may put in the list: the enum members and a name that is
\* no member
DayEntries == Weekdays \o <<"everyday", "holiday">>

\* the bits counted from sunday
WeekdaySelect_reversed(d) ==
    CASE d = "monday" -> 1 [] d = "tuesday" -> 2 [] d = "wednesday" -> 4
      [] d = "thursday" -> 8 [] d = "friday" -> 16 [] d = "saturday" -> 32
      [] d = "sunday" -> 64 [] d = "everyday" -> 127 [] OTHER -> 0

\* WeekdaySelect[d].value; a name that is no member raises inside the
\* encoder's try block and contributes nothing
WeekdaySelect(d) ==
    CASE d = "monday" -> 64 [] d = "tuesday" -> 32 [] d = "wednesday" -> 16
      [] d = "thursday" -> 8 [] d = "friday" -> 4 [] d = "saturday" -> 2
      [] d = "sunday" -> 1 [] d = "everyday" -> 127 [] OTHER -> 0

RECURSIVE OrDays(_, _)
\* the loop mask |= d.value over the list
OrDays(days, mask) ==
    IF days = <<>> THEN mask
    ELSE OrDays(Tail(days), Or(mask, WeekdaySelect(Head(days))))

encode_selected_weekdays(days) ==
    IF days = <<>> THEN 0
    ELSE IF \E i \in 1..Len(days) : days[i] = "everyday" THEN 127
    ELSE And(OrDays(days, 0), 127)

\* protocol.WEEKDAY_BITS, in dictionary order
WEEKDAY_BITS ==
    << [bit |-> 64, name |-> "monday"], [bit |-> 32, name |-> "tuesday"],
       [bit |-> 16, name |-> "wednesday"], [bit |-> 8, name |-> "thursday"],
       [bit |-> 4, name |-> "friday"], [bit |-> 2, name |-> "saturday"],
       [bit |-> 1, name |-> "sunday"] >>

RECURSIVE NamesOf(_, _)
\* [name for bit, name in table if mask & bit]
NamesOf(table, mask) ==
    IF table = <<>> THEN <<>>
    ELSE (IF And(mask, Head(table).bit) # 0 THEN <<Head(table).name>>
          ELSE <<>>) \o NamesOf(Tail(table), mask)

decode_weekdays(mask) ==
    IF mask = 127 THEN <<"everyday">> ELSE NamesOf(WEEKDAY_BITS, mask)

Reverse(s) == [i \in 1..Len(s) |-> s[Len(s) + 1 - i]]

\* the list holding the chosen entries, in table order or reversed, once or
\* twice
DayList(chosen, reversed, twice) ==
    LET l == SelectSeq(DayEntries, LAMBDA d : d \in chosen)
        o == IF reversed THEN Reverse(l) ELSE l
    IN  IF twice THEN o \o o ELSE o

DaysNotEncoded == [stage |-> "given", mask |-> 0, names |-> <<>>]

InitWeekdays ==
    /\ \E chosen \in SUBSET {DayEntries[i] : i \in 1..Len(DayEntries)},
          reversed \in BOOLEAN, twice \in BOOLEAN :
            given = [days |-> DayList(chosen, reversed, twice)]
    /\ built = DaysNotEncoded
    /\ gen = IdleGen /\ msgId = InitialMsgId /\ wire = <<>> /\ dose = IdleDose
    /\ sess = 0 /\ tasks = 0 /\ ble = 0 /\ hist = 0 /\ run = 0

\* a caller encodes the list
EncodeWeekdays ==
    /\ built.stage = "given"
    /\ built' = [built EXCEPT !.stage = "encoded",
                              !.mask = encode_selected_weekdays(given.days)]
    /\ UNCHANGED <<given, gen, msgId, wire, dose>>
    /\ UNCHANGED engineVars

\* the mask is decoded
DecodeWeekdays ==
    /\ built.stage = "encoded"
    /\ built' = [built EXCEPT !.stage = "decoded",
                              !.names = decode_weekdays(built.mask)]
    /\ UNCHANGED <<given, gen, msgId, wire, dose>>
    /\ UNCHANGED engineVars

NextWeekdays == EncodeWeekdays \/ DecodeWeekdays

SpecWeekdays == InitWeekdays /\ [][NextWeekdays]_vars

Range(s) == {s[i] : i \in 1..Len(s)}

SevenDays == Range(Weekdays)

\* the list is a non-empty selection of the seven days
GivenWeekdays == given.days # <<>> /\ Range(given.days) \subseteq SevenDays

RECURSIVE SumBits(_)
SumBits(S) ==
    IF S = {} THEN 0
    ELSE LET d == CHOOSE x \in S : TRUE
             b == (CHOOSE i \in 1..7 : WEEKDAY_BITS[i].name = d)
         IN  WEEKDAY_BITS[b].bit + SumBits(S \ {d})

\* C23 as stated: every non-empty selection of the seven days, the full
\* week included, decodes back to exactly the selected days
C23_RoundTripEverySubset ==
    (built.stage = "decoded" /\ GivenWeekdays) =>
        Range(built.names) = Range(given.days)

\* C23: the mask of a non-empty selection of the seven days is the OR of the
\* days' bits (Mon=64 .. Sun=1), a 7-bit value, 127 for the full week; it
\* decodes back to exactly the selected days when the selection is not the
\* full week, and to the single marker "everyday" when it is
C23_WeekdayRoundTrip ==
    (built.stage = "decoded" /\ GivenWeekdays) =>
        /\ built.mask = SumBits(Range(given.days))
        /\ built.mask \in 0..127
        /\ Range(given.days) # SevenDays =>
               /\ Range(built.names) = Range(given.days)
               /\ Len(built.names) = Cardinality(Range(given.days))
        /\ Range(given.days) = SevenDays =>
               /\ built.mask = 127
               /\ built.names = <<"everyday">>

\* tuesday and sunday, listed twice in reverse order, decoded from mask 33
C23_Witness ==
    /\ built.stage = "decoded"
    /\ given.days = <<"sunday", "tuesday", "sunday", "tuesday">>
    /\ built.mask = 33
    /\ built.names = <<"tuesday", "sunday">>

(***************************************************************************)
(* SpecParse: parse_frame (protocol.py) applied to one record.  Amounts    *)
(* are in tenths of a millilitre.                                          *)
(***************************************************************************)
\* protocol._dose27_is_manual: [ch, a, b, hi, lo] or [ch, a, b, x, hi, lo]
dose27_is_manual(params) ==
    \/ /\ Len(params) = 5
       /\ params[2] = 0 /\ params[3] = 0
       /\ 0 <= params[4] /\ params[4] <= 10
       /\ 0 <= params[5] /\ params[5] <= 255
    \/ /\ Len(params) = 6
       /\ params[2] = 0 /\ params[3] = 0
       /\ 0 <= params[5] /\ params[5] <= 10
       /\ 0 <= params[6] /\ params[6] <= 255

\* accepts hours up to 12 only
dose27_is_weekly_half_day(params) ==
    /\ Len(params) = 6
    /\ 0 <= params[2] /\ params[2] <= 127
    /\ params[3] \in {0, 1}
    /\ 0 <= params[4] /\ params[4] <= 12
    /\ 0 <= params[5] /\ params[5] <= 59
    /\ 0 <= params[6] /\ params[6] <= 255

\* protocol._dose27_is_weekly: [ch, mask, enable, HH, MM, dose_x10]
dose27_is_weekly(params) ==
    /\ Len(params) = 6
    /\ 0 <= params[2] /\ params[2] <= 127
    /\ params[3] \in {0, 1}
    /\ 0 <= params[4] /\ params[4] <= 23
    /\ 0 <= params[5] /\ params[5] <= 59
    /\ 0 <= params[6] /\ params[6] <= 255

decode_time_90_9(params) ==
    [type |-> "time_set", year |-> 2000 + params[1], month |-> params[2],
     day_or_week_index |-> params[3], hour |-> params[4],
     minute |-> params[5], second |-> params[6]]

decode_activate_165_32(params) ==
    [type |-> "activate", channel |-> params[1], enabled |-> params[3] # 0]

decode_dose_165_27(params) ==
    IF dose27_is_manual(params)
    THEN [type |-> "manual_dose", channel |-> params[1],
          amount_ml |-> ml_from_25_6(params[Len(params) - 1],
                                     params[Len(params)]),
          raw |-> params]
    ELSE IF dose27_is_weekly(params)
    THEN [type |-> "dose_entry", channel |-> params[1],
          weekdays_mask |-> params[2],
          weekdays |-> decode_weekdays(params[2]),
          enabled |-> params[3] # 0,
          time_hour |-> params[4], time_minute |-> params[5],
          amount_ml |-> params[6], raw_aux |-> <<>>]
    ELSE IF Len(params) = 6
    THEN LET ml  == ml_from_25_6(params[5], params[6])
             obj == [type |-> "dose_entry", channel |-> params[1],
                     weekdays_mask |-> params[2],
                     weekdays |-> decode_weekdays(params[2]),
                     amount_ml |-> ml,
                     raw_aux |-> <<params[3], params[4]>>]
         IN  IF ~(2 <= ml /\ ml <= 999990)
             THEN [f \in DOMAIN obj \cup {"warning"} |->
                      IF f = "warning" THEN "dose_out_of_range" ELSE obj[f]]
             ELSE obj
    ELSE [type |-> "unknown_27", params |-> params]

decode_timer_165_21(params) ==
    LET entry == [type |-> "timer", channel |-> params[1],
                  timer_type |-> params[2], start_hour |-> params[3],
                  start_minute |-> params[4]]
    IN  IF ~(0 <= params[4] /\ params[4] <= 59)
        THEN [f \in DOMAIN entry \cup {"warning"} |->
                 IF f = "warning" THEN "minute_out_of_range" ELSE entry[f]]
        ELSE entry

parse_frame(cmd_id, mode, params) ==
    IF cmd_id = 90 /\ mode = 9 /\ Len(params) = 6
    THEN decode_time_90_9(params)
    ELSE IF cmd_id = 165 /\ mode = 32 /\ Len(params) = 3
    THEN decode_activate_165_32(params)
    ELSE IF cmd_id = 165 /\ mode = 27 /\ Len(params) \in {5, 6}
    THEN decode_dose_165_27(params)
    ELSE IF cmd_id = 165 /\ mode = 21 /\ Len(params) = 6
    THEN decode_timer_165_21(params)
    ELSE IF <<cmd_id, mode>> \in {<<90, 4>>, <<165, 4>>}
    THEN [type |-> "control", cmd |-> cmd_id, mode |-> mode,
          params |-> params]
    ELSE [type |-> "unknown", cmd |-> cmd_id, mode |-> mode,
          params |-> params]

\* parameter lists of 6 and 5 bytes around the limits the decoders test
SixBytes ==
    {<<c, a, b, x, h, l>> : c \in {0, 3}, a \in {0, 1, 127, 128},
                            b \in {0, 1, 2}, x \in {0, 5, 10, 11, 23, 24},
                            h \in {0, 10, 11, 59, 60}, l \in {0, 2, 255}}

FiveBytes ==
    {<<c, a, b, h, l>> : c \in {0, 3}, a \in {0, 1, 127},
                         b \in {0, 1, 2}, h \in {0, 5, 10, 11, 24},
                         l \in {0, 2, 255}}

OtherLengths ==
    {<<>>, <<1>>, <<0, 0, 1>>, <<2, 0, 0>>, <<1, 2, 3, 4>>,
     <<0, 127, 1, 8, 30, 25, 0>>}

ParsedCmds == {90, 165, 91}

ParsedModes == {4, 9, 21, 27, 32}

NotParsed == [stage |-> "given", event |-> [type |-> "none"]]

InitParse ==
    /\ given \in [cmd : ParsedCmds, mode : ParsedModes,
                  params : SixBytes \cup FiveBytes \cup OtherLengths]
    /\ built = NotParsed
    /\ gen = IdleGen /\ msgId = InitialMsgId /\ wire = <<>> /\ dose = IdleDose
    /\ sess = 0 /\ tasks = 0 /\ ble = 0 /\ hist = 0 /\ run = 0

\* the record is parsed
ParseFrame ==
    /\ built.stage = "given"
    /\ built' = [stage |-> "parsed",
                 event |-> parse_frame(given.cmd, given.mode, given.params)]
    /\ UNCHANGED <<given, gen, msgId, wire, dose>>
    /\ UNCHANGED engineVars

NextParse == ParseFrame

SpecParse == InitParse /\ [][NextParse]_vars

\* a parsed 165/27 record
Parsed27 ==
    built.stage = "parsed" /\ given.cmd = 165 /\ given.mode = 27

\* C24: a 5-byte or 6-byte 165/27 list ending in a pair (hi <= 10, lo) with
\* the two bytes immediately before the pair both zero is classified as a
\* manual dose of hi*25.6 + lo/10 mL
C24_ManualRule ==
    LET n == Len(given.params)
    IN  (/\ Parsed27 /\ n \in {5, 6}
         /\ given.params[n - 1] <= 10
         /\ given.params[n - 2] = 0 /\ given.params[n - 3] = 0)
            => /\ built.event.type = "manual_dose"
               /\ built.event.amount_ml
                    = 256 * given.params[n - 1] + given.params[n]

\* the list has the weekly shape [ch, mask, enable, HH, MM, dose_x10]
WeeklyShape ==
    /\ Len(given.params) = 6
    /\ given.params[2] \in 0..127
    /\ given.params[3] \in {0, 1}
    /\ given.params[4] \in 0..23
    /\ given.params[5] \in 0..59
    /\ given.params[6] \in 0..255

\* the event is the weekly entry made of the list's bytes
WeeklyEntryOfBytes ==
    /\ built.event.type = "dose_entry"
    /\ DOMAIN built.event =
         {"type", "channel", "weekdays_mask", "weekdays", "enabled",
          "time_hour", "time_minute", "amount_ml", "raw_aux"}
    /\ built.event.channel = given.params[1]
    /\ built.event.weekdays_mask = given.params[2]
    /\ built.event.enabled = (given.params[3] = 1)
    /\ built.event.time_hour = given.params[4]
    /\ built.event.time_minute = given.params[5]
    /\ built.event.amount_ml = given.params[6]

looks_like_totals_pairs(p) ==
    /\ Len(p) = 8
    /\ \A i \in {1, 3, 5, 7} :
          /\ 0 <= p[i] /\ p[i] <= 10
          /\ 0 <= p[i + 1] /\ p[i + 1] <= 255

\* protocol._decode_totals_pairs, in tenths of a millilitre
decode_totals_pairs(pairs8) ==
    [c \in 1..4 |-> ml_from_25_6(pairs8[2 * c - 1], pairs8[2 * c])]

NoTotals == [found |-> FALSE, totals |-> <<>>]

RECURSIVE scan_windows_last(_, _)
\* returns the last plausible window at or after i
scan_windows_last(params, i) ==
    IF i + 7 > Len(params) THEN NoTotals
    ELSE LET later == scan_windows_last(params, i + 1)
         IN  IF later.found THEN later
             ELSE IF looks_like_totals_pairs(SubSeq(params, i, i + 7))
             THEN [found |-> TRUE,
                   totals |-> decode_totals_pairs(SubSeq(params, i, i + 7))]
             ELSE NoTotals

RECURSIVE scan_windows(_, _)
\* the loop over the windows params[i:i+8], from window i (counted from 1)
scan_windows(params, i) ==
    IF i + 7 > Len(params) THEN NoTotals
    ELSE IF looks_like_totals_pairs(SubSeq(params, i, i + 7))
    THEN [found |-> TRUE,
          totals |-> decode_totals_pairs(SubSeq(params, i, i + 7))]
    ELSE scan_windows(params, i + 1)

parse_totals_frame(payload) ==
    IF Len(payload) < 15 THEN NoTotals
    ELSE IF payload[1] # CMD_LED_QUERY THEN NoTotals
    ELSE LET params == SubSeq(payload, 7, Len(payload) - 1)
         IN  IF Len(params) = 8 /\ looks_like_totals_pairs(params)
             THEN [found |-> TRUE, totals |-> decode_totals_pairs(params)]
             ELSE IF Len(params) >= 8 THEN scan_windows(params, 1)
             ELSE NoTotals

\* a notification frame: header, parameters, XOR checksum
TotalsPayload(first, params) ==
    LET body == <<first, 1, Len(params) + LED_LEN_BIAS, 0, 1, 34>> \o params
    IN  Append(body, xor_checksum(body))

\* plausible windows: every hi 0 or 10, every lo 5 or 200
PlausibleWindows ==
    {<<h1, l1, h2, l2, h3, l3, h4, l4>> :
        h1 \in {0, 10}, l1 \in {5, 200}, h2 \in {0, 10}, l2 \in {5, 200},
        h3 \in {0, 10}, l3 \in {5, 200}, h4 \in {0, 10}, l4 \in {5, 200}}

\* up to two extra bytes, each a plausible hi or not
ExtraBytes ==
    {<<>>} \cup {<<a>> : a \in {0, 11}} \cup {<<a, b>> : a \in {0, 11},
                                                         b \in {0, 11}}

TotalsNotParsed == [stage |-> "given", embedded |-> NoTotals, alone |-> NoTotals]

InitTotals ==
    /\ given \in [first : {CMD_LED_QUERY, 165}, before : ExtraBytes,
                  window : PlausibleWindows, after : ExtraBytes]
    /\ built = TotalsNotParsed
    /\ gen = IdleGen /\ msgId = InitialMsgId /\ wire = <<>> /\ dose = IdleDose
    /\ sess = 0 /\ tasks = 0 /\ ble = 0 /\ hist = 0 /\ run = 0

EmbeddedParams == given.before \o given.window \o given.after

\* the frame with the embedded window and the frame with the window alone
\* are parsed
ParseTotals ==
    /\ built.stage = "given"
    /\ built' = [stage |-> "parsed",
                 embedded |-> parse_totals_frame(
                                  TotalsPayload(given.first, EmbeddedParams)),
                 alone |-> parse_totals_frame(
                                  TotalsPayload(given.first, given.window))]
    /\ UNCHANGED <<given, gen, msgId, wire, dose>>
    /\ UNCHANGED engineVars

NextTotals == ParseTotals

SpecTotals == InitTotals /\ [][NextTotals]_vars

\* a plausible window starts before the embedded one
EarlierPlausible ==
    \E i \in 1..Len(given.before) :
        looks_like_totals_pairs(SubSeq(EmbeddedParams, i, i + 7))

\* C26 as stated: whatever the extra bytes, the 0x5B frame with the embedded
\* window gives the 4 values of the window alone
C26_WindowAnywhere ==
    (built.stage = "parsed" /\ given.first = CMD_LED_QUERY) =>
        /\ built.alone.found
        /\ built.embedded = built.alone

\* C26: the 0x5B frame with the embedded window gives the 4 values of the
\* window alone whenever the extra bytes before it do not make an earlier
\* 8-byte window plausible
C26_FirstPlausibleWindow ==
    (/\ built.stage = "parsed" /\ given.first = CMD_LED_QUERY
     /\ ~EarlierPlausible) =>
        /\ built.alone.found
        /\ built.alone.totals
             = [c \in 1..4 |-> 256 * given.window[2 * c - 1]
                                + given.window[2 * c]]
        /\ built.embedded = built.alone

\* the window after one implausible byte and before a plausible one
C26_Witness ==
    /\ built.stage = "parsed" /\ given.first = CMD_LED_QUERY
    /\ given.before = <<11>> /\ given.after = <<0, 0>>
    /\ given.window = <<10, 5, 0, 200, 10, 200, 0, 5>>
    /\ built.embedded.found
    /\ built.embedded.totals = <<2565, 200, 2760, 5>>

(***************************************************************************)
(* SpecPipeline: decode_records and build_device_state (protocol.py)       *)
(* applied to lists of records.  An Optional field is <<>> for None and    *)
(* <<v>> for the value v.                                                  *)
(***************************************************************************)
MaxRecords == 3

RECURSIVE decode_records_stop(_)
\* stops at the first record that parses as unknown
decode_records_stop(records) ==
    IF records = <<>> THEN <<>>
    ELSE LET r  == Head(records)
             ev == parse_frame(r[1], r[2], r[3])
         IN  IF ev.type = "unknown" THEN <<ev>>
             ELSE <<ev>> \o decode_records_stop(Tail(records))

RECURSIVE decode_records(_)
\* [parse_frame(c, m, p) for (c, m, p) in records]
decode_records(records) ==
    IF records = <<>> THEN <<>>
    ELSE LET r == Head(records)
         IN  <<parse_frame(r[1], r[2], r[3])>> \o decode_records(Tail(records))

\* ChannelState(channel=ch); the TimerState fields are kept in the same record
ChannelState(ch) ==
    [channel |-> ch, enabled |-> <<>>, amount_ml |-> <<>>,
     weekdays_mask |-> <<>>, weekdays |-> <<>>, time_hour |-> <<>>,
     time_minute |-> <<>>, timer_type |-> <<>>, start_hour |-> <<>>,
     start_minute |-> <<>>]

\* ChannelState.merge
merge(self, event) ==
    LET t == event.type
    IN  IF t = "activate"
        THEN [self EXCEPT !.enabled = <<event.enabled>>]
        ELSE IF t = "dose_entry"
        THEN LET s1 == [self EXCEPT !.amount_ml = <<event.amount_ml>>]
                 s2 == IF "weekdays_mask" \in DOMAIN event
                       THEN [s1 EXCEPT !.weekdays_mask = <<event.weekdays_mask>>,
                                       !.weekdays = event.weekdays]
                       ELSE s1
                 s3 == IF "time_hour" \in DOMAIN event
                       THEN [s2 EXCEPT !.time_hour = <<event.time_hour>>]
                       ELSE s2
                 s4 == IF "time_minute" \in DOMAIN event
                       THEN [s3 EXCEPT !.time_minute = <<event.time_minute>>]
                       ELSE s3
             IN  IF "enabled" \in DOMAIN event /\ self.enabled = <<>>
                 THEN [s4 EXCEPT !.enabled = <<event.enabled>>]
                 ELSE s4
        ELSE IF t = "manual_dose"
        THEN [self EXCEPT !.amount_ml = <<event.amount_ml>>]
        ELSE IF t = "timer"
        THEN [self EXCEPT !.timer_type = <<event.timer_type>>,
                          !.start_hour = <<event.start_hour>>,
                          !.start_minute = <<event.start_minute>>]
        ELSE self

\* DeviceState()
DeviceState ==
    [device_time |-> <<>>, channels |-> [c \in {} |-> 0], other_events |-> <<>>]

ChannelEventTypes == {"activate", "dose_entry", "manual_dose", "timer"}

RECURSIVE build_from(_, _)
\* the loop of build_device_state over the remaining rows
build_from(ds, rows) ==
    IF rows = <<>> THEN ds
    ELSE LET ev == Head(rows)
             et == ev.type
         IN  IF et = "time_set"
             THEN build_from([ds EXCEPT !.device_time = <<ev>>], Tail(rows))
             ELSE IF et \in ChannelEventTypes
             THEN LET ch == ev.channel
                      st == IF ch \in DOMAIN ds.channels THEN ds.channels[ch]
                            ELSE ChannelState(ch)
                      m  == merge(st, ev)
                  IN  build_from(
                        [ds EXCEPT !.channels =
                            [c \in DOMAIN ds.channels \cup {ch} |->
                                IF c = ch THEN m ELSE ds.channels[c]]],
                        Tail(rows))
             ELSE build_from(
                    [ds EXCEPT !.other_events = Append(ds.other_events, ev)],
                    Tail(rows))

build_device_state(parsed_rows) == build_from(DeviceState, parsed_rows)

\* records of every family parse_frame knows, and records of none
RecordPool ==
    { <<90, 9, <<25, 10, 2, 11, 28, 47>> >>,
      <<165, 32, <<0, 0, 1>> >>,
      <<165, 32, <<0, 0, 0>> >>,
      <<165, 32, <<7, 0, 1>> >>,
      <<165, 27, <<0, 127, 0, 8, 30, 25>> >>,
      <<165, 27, <<0, 3, 1, 9, 15, 40>> >>,
      <<165, 27, <<0, 0, 0, 1, 140>> >>,
      <<165, 27, <<1, 5, 7, 9, 2, 3>> >>,
      <<165, 27, <<3, 1, 1, 1, 1>> >>,
      <<165, 27, <<2, 1, 1, 1>> >>,
      <<165, 21, <<0, 1, 0, 42, 0, 0>> >>,
      <<90, 4, <<1>> >>,
      <<91, 9, <<1, 2, 3, 4, 5, 6>> >> }

RecordLists == UNION {[1..n -> RecordPool] : n \in 0..MaxRecords}

NotDecoded == [stage |-> "given", events |-> <<>>, state |-> DeviceState]

InitPipeline ==
    /\ given \in [records : RecordLists]
    /\ built = NotDecoded
    /\ gen = IdleGen /\ msgId = InitialMsgId /\ wire = <<>> /\ dose = IdleDose
    /\ sess = 0 /\ tasks = 0 /\ ble = 0 /\ hist = 0 /\ run = 0

\* the records are decoded
DecodeRecords ==
    /\ built.stage = "given"
    /\ built' = [built EXCEPT !.stage = "decoded",
                              !.events = decode_records(given.records)]
    /\ UNCHANGED <<given, gen, msgId, wire, dose>>
    /\ UNCHANGED engineVars

\* the events are folded into a DeviceState
BuildDeviceState ==
    /\ built.stage = "decoded"
    /\ built' = [built EXCEPT !.stage = "built",
                              !.state = build_device_state(built.events)]
    /\ UNCHANGED <<given, gen, msgId, wire, dose>>
    /\ UNCHANGED engineVars

NextPipeline == DecodeRecords \/ BuildDeviceState

SpecPipeline == InitPipeline /\ [][NextPipeline]_vars

\* the (cmd, mode, parameter-count) shapes parse_frame knows
KnownShape(r) ==
    \/ r[1] = 90 /\ r[2] = 9 /\ Len(r[3]) = 6
    \/ r[1] = 165 /\ r[2] = 32 /\ Len(r[3]) = 3
    \/ r[1] = 165 /\ r[2] = 27 /\ Len(r[3]) \in {5, 6}
    \/ r[1] = 165 /\ r[2] = 21 /\ Len(r[3]) = 6
    \/ r[1] \in {90, 165} /\ r[2] = 4

\* the event types each known shape can give
FamilyOf(r) ==
    IF r[2] = 9 THEN {"time_set"}
    ELSE IF r[2] = 32 THEN {"activate"}
    ELSE IF r[2] = 27 THEN {"manual_dose", "dose_entry", "unknown_27"}
    ELSE IF r[2] = 21 THEN {"timer"}
    ELSE {"control"}

\* C27: decode_records gives one event per record, in input order; a record
\* of no known shape gives an unknown event with the record's cmd, mode and
\* params, and the records after it are decoded all the same
C27_DecoderTotal ==
    (built.stage # "given") =>
        /\ Len(built.events) = Len(given.records)
        /\ \A i \in 1..Len(given.records) :
              LET r  == given.records[i]
                  ev == built.events[i]
              IN  /\ ~KnownShape(r) =>
                        ev = [type |-> "unknown", cmd |-> r[1], mode |-> r[2],
                              params |-> r[3]]
                  /\ KnownShape(r) =>
                        /\ ev.type \in FamilyOf(r)
                        /\ ev.type \in ChannelEventTypes =>
                               ev.channel = r[3][1]
                        /\ ev.type \in {"control", "unknown_27"} =>
                               ev.params = r[3]

\* an unknown record between two known ones
C27_Witness ==
    /\ built.stage = "decoded"
    /\ given.records = << <<165, 32, <<7, 0, 1>> >>,
                          <<91, 9, <<1, 2, 3, 4, 5, 6>> >>,
                          <<165, 21, <<0, 1, 0, 42, 0, 0>> >> >>
    /\ built.events[1].type = "activate"
    /\ built.events[2].type = "unknown"
    /\ built.events[3].type = "timer"

\* the fields of a channel's state that events carry
StateFields ==
    {"enabled", "amount_ml", "weekdays_mask", "time_hour", "time_minute",
     "timer_type", "start_hour", "start_minute"}

\* the events of the list that are for channel ch and carry field f
Carrying(ch, f) ==
    {i \in 1..Len(built.events) :
        /\ built.events[i].type \in ChannelEventTypes
        /\ built.events[i].channel = ch
        /\ f \in DOMAIN built.events[i]}

\* C28: every field of a channel's state is the value carried by the last
\* event of the list that carries that field for that channel (enabled flag
\* of a later dose_entry included)
C28_LastWriteWins ==
    (built.stage = "built") =>
        \A ch \in DOMAIN built.state.channels : \A f \in StateFields :
            LET idx == Carrying(ch, f)
            IN  IF idx = {} THEN built.state.channels[ch][f] = <<>>
                ELSE LET last == CHOOSE i \in idx : \A j \in idx : j <= i
                     IN  built.state.channels[ch][f] = <<built.events[last][f]>>

\* the events of the list that are for channel ch
EventsOf(ch) ==
    SelectSeq(built.events,
              LAMBDA ev : ev.type \in ChannelEventTypes /\ ev.channel = ch)

\* C29: the DeviceState holds at most 4 channel states, all with index in
\* 0..3; the state of a channel depends on that channel's events only; the
\* events that are neither time_set nor channel events are in the overflow
\* list in input order
C29_FourChannels ==
    (built.stage = "built") =>
        /\ Cardinality(DOMAIN built.state.channels) <= 4
        /\ DOMAIN built.state.channels \subseteq 0..3
        /\ \A ch \in DOMAIN built.state.channels :
              built.state.channels[ch]
                = build_device_state(EventsOf(ch)).channels[ch]
        /\ built.state.other_events
             = SelectSeq(built.events,
                         LAMBDA ev : ev.type \notin
                                       ChannelEventTypes \cup {"time_set"})

(***************************************************************************)
(* SpecOps: the device operations of DoserDevice that build a list of      *)
(* frames and send them one by one (doser_device.py), with the frame       *)
(* creators of dosingcommands.py.  A send is a call of _send_command,      *)
(* which either writes the frame and returns or raises a transport error.  *)
(***************************************************************************)
create_order_confirmation(msg_id, command_id, mode, command) ==
    IF ~clamp_byte_ok(command)
    THEN [err |-> "ValueError", bytes |-> <<>>, tries |-> 0]
    ELSE create_command_encoding_dosing_pump(command_id, mode, msg_id,
                                             <<command>>)

\* now is the clock reading [yy, mm, idx, HH, MM, SS]
create_set_time_command(msg_id, now) ==
    create_command_encoding_dosing_pump(90, 9, msg_id, now)

create_switch_to_auto_mode_dosing_pump_command(msg_id, channel_id) ==
    IF ~clamp_byte_ok(channel_id)
    THEN [err |-> "ValueError", bytes |-> <<>>, tries |-> 0]
    ELSE create_command_encoding_dosing_pump(165, 32, msg_id,
                                             <<channel_id, 0, 1>>)

create_add_dosing_pump_command_manuell_ml(msg_id, ch_id, ch_ml_one, ch_ml_two) ==
    IF ~(clamp_byte_ok(ch_id) /\ clamp_byte_ok(ch_ml_one)
         /\ clamp_byte_ok(ch_ml_two))
    THEN [err |-> "ValueError", bytes |-> <<>>, tries |-> 0]
    ELSE create_command_encoding_dosing_pump(165, 27, msg_id,
             <<ch_id, 0, 0, ch_ml_one, ch_ml_two>>)

\* performance_time is <<hour, minute>>; enabled is always True here
create_auto_mode_dosing_pump_command_time(performance_time, msg_id, ch_id) ==
    IF ~clamp_byte_ok(ch_id)
    THEN [err |-> "ValueError", bytes |-> <<>>, tries |-> 0]
    ELSE create_command_encoding_dosing_pump(165, 21, msg_id,
             <<ch_id, 1, performance_time[1], performance_time[2], 0, 0>>)

create_schedule_weekly_byte_amount(performance_time, msg_id, ch_id, weekdays_mask, daily_ml_tenths) ==
    IF ~clamp_byte_ok(ch_id)
       \/ ~(0 <= daily_ml_tenths /\ daily_ml_tenths <= 255)
    THEN [err |-> "ValueError", bytes |-> <<>>, tries |-> 0]
    ELSE create_command_encoding_dosing_pump(165, 27, msg_id,
             <<ch_id, And(weekdays_mask, 127), 1, performance_time[1],
               performance_time[2], daily_ml_tenths>>)

\* daily_ml in hundredths of a millilitre; returns the two frames or the error
create_schedule_weekly_hi_lo(performance_time, msg_id_time, msg_id_amount, ch_id, weekdays_mask, daily_ml) ==
    LET s == split_ml_25_6(daily_ml)
    IN  IF ~clamp_byte_ok(ch_id) \/ s.err # "none"
        THEN [err |-> "ValueError", frames |-> <<>>]
        ELSE [err |-> "none",
              frames |->
                << create_auto_mode_dosing_pump_command_time(
                       performance_time, msg_id_time, ch_id),
                   create_command_encoding_dosing_pump(165, 27, msg_id_amount,
                       <<ch_id, And(weekdays_mask, 127), 1, 0, s.hi, s.lo>>) >>]

RECURSIVE IdAfter(_, _)
\* the id returned by the n-th of n successive get_next_msg_id() calls
IdAfter(id, n) == IF n = 0 THEN id ELSE IdAfter(next_message_id(id), n - 1)

\* the operations and arguments tried
OpArguments ==
    [op : {"manual"}, ch_id : {0, 3, 256, -1},
     amount : {0, 15, 20, 2560, 99990, 99995, 100000},
     prefer_hilo : {"None"}, now : {<<25, 10, 2, 11, 28, 47>>},
     weekdays_mask : {0}, cmd_id : {165}, params : {<<>>}, repeats : {1}]
    \cup
    [op : {"weekly"}, ch_id : {0, 3, 256, -1},
     amount : {-1, 0, 2, 255, 256, 9999, 10000},
     prefer_hilo : {"None", "True", "False"},
     now : {<<25, 10, 2, 11, 28, 47>>, <<26, 1, 7, 23, 59, 59>>},
     weekdays_mask : {127, 193}, cmd_id : {165}, params : {<<>>},
     repeats : {3}]
    \cup
    [op : {"raw"}, ch_id : {0}, amount : {0}, prefer_hilo : {"None"},
     now : {<<25, 10, 2, 11, 28, 47>>}, weekdays_mask : {0},
     cmd_id : {165, 90, 256},
     params : {<<>>, <<0, 0, 0, 1, 140>>, <<300>>, <<90>>},
     repeats : {1, 2, 3}]

\* the weekly operation's time of day
PerformanceTime == <<8, 30>>

OpNotStarted ==
    [pc |-> "start", err |-> "pending", queue |-> <<>>, after |-> "finish",
     calls |-> 0, returned |-> 0, inflight |-> FALSE]

InitOps ==
    /\ given \in OpArguments
    /\ built = OpNotStarted
    /\ msgId = InitialMsgId
    /\ wire = <<>>
    /\ gen = IdleGen /\ dose = IdleDose
    /\ sess = 0 /\ tasks = 0 /\ ble = 0 /\ hist = 0 /\ run = 0

\* the operation raised ValueError
Rejected(b) == [b EXCEPT !.pc = "done", !.err = "ValueError"]

\* the frames are handed to the sending loop
Sending(b, frames, after) ==
    [b EXCEPT !.pc = "sending",
              !.queue = [i \in 1..Len(frames) |-> frames[i].bytes],
              !.after = after]

BuildFailed(frames) == \E i \in 1..Len(frames) : frames[i].err # "none"

\* set_dosing_pump_manuell_ml up to the call of send_frames
StartManual ==
    /\ given.op = "manual" /\ built.pc = "start"
    /\ LET s      == split_ml_25_6(given.amount)
           frames ==
             << create_order_confirmation(IdAfter(msgId, 1), 90, 4, 1),
                create_set_time_command(IdAfter(msgId, 2), given.now),
                create_set_time_command(IdAfter(msgId, 3), given.now),
                create_order_confirmation(IdAfter(msgId, 4), 165, 4, 4),
                create_order_confirmation(IdAfter(msgId, 5), 165, 4, 5),
                create_add_dosing_pump_command_manuell_ml(
                    IdAfter(msgId, 6), given.ch_id, s.hi, s.lo) >>
       IN  IF s.err # "none"
           THEN built' = Rejected(built) /\ msgId' = msgId
           ELSE /\ msgId' = IdAfter(msgId, 6)
                /\ built' = IF BuildFailed(frames) THEN Rejected(built)
                            ELSE Sending(built, frames, "finish")
    /\ UNCHANGED <<given, gen, wire, dose>>
    /\ UNCHANGED engineVars

\* add_setting_dosing_pump up to the loop over the prelude
StartWeekly ==
    /\ given.op = "weekly" /\ built.pc = "start"
    /\ LET frames ==
             << create_order_confirmation(IdAfter(msgId, 1), 90, 4, 1),
                create_set_time_command(IdAfter(msgId, 2), given.now),
                create_set_time_command(IdAfter(msgId, 3), given.now),
                create_order_confirmation(IdAfter(msgId, 4), 165, 4, 4),
                create_order_confirmation(IdAfter(msgId, 5), 165, 4, 5),
                create_switch_to_auto_mode_dosing_pump_command(
                    IdAfter(msgId, 6), given.ch_id) >>
       IN  /\ msgId' = IdAfter(msgId, 6)
           /\ built' = IF BuildFailed(frames) THEN Rejected(built)
                       ELSE Sending(built, frames, "choose")
    /\ UNCHANGED <<given, gen, wire, dose>>
    /\ UNCHANGED engineVars

\* prefer_hilo, or the threshold when it is None
use_hilo ==
    IF given.prefer_hilo = "True" THEN TRUE
    ELSE IF given.prefer_hilo = "False" THEN FALSE
    ELSE given.amount > 255

\* add_setting_dosing_pump after the prelude: the hi/lo pair is built, or
\* the time frame of the byte variant
WeeklyChoose ==
    /\ built.pc = "choose"
    /\ IF use_hilo
       THEN LET r == create_schedule_weekly_hi_lo(
                         PerformanceTime, IdAfter(msgId, 1), IdAfter(msgId, 2),
                         given.ch_id, given.weekdays_mask, given.amount * 10)
            IN  /\ msgId' = IdAfter(msgId, 2)
                /\ built' = IF r.err # "none" \/ BuildFailed(r.frames)
                            THEN Rejected(built)
                            ELSE Sending(built, r.frames, "finish")
       ELSE LET set_time0 == create_auto_mode_dosing_pump_command_time(
                                 PerformanceTime, IdAfter(msgId, 1),
                                 given.ch_id)
            IN  /\ msgId' = IdAfter(msgId, 1)
                /\ built' = IF set_time0.err # "none" THEN Rejected(built)
                            ELSE Sending(built, <<set_time0>>, "byte_amount")
    /\ UNCHANGED <<given, gen, wire, dose>>
    /\ UNCHANGED engineVars

\* add_setting_dosing_pump, byte variant, after the time frame was sent
WeeklyByteAmount ==
    /\ built.pc = "byte_amount"
    /\ LET pkt == create_schedule_weekly_byte_amount(
                      PerformanceTime, IdAfter(msgId, 1), given.ch_id,
                      given.weekdays_mask, given.amount)
       IN  /\ msgId' = IdAfter(msgId, 1)
           /\ built' = IF pkt.err # "none" THEN Rejected(built)
                       ELSE Sending(built, <<pkt>>, "finish")
    /\ UNCHANGED <<given, gen, wire, dose>>
    /\ UNCHANGED engineVars

\* raw_dosing_pump up to the call of _send_command; repeats is passed on as
\* the retry argument, which _send_command_while_connected never reads
StartRaw ==
    /\ given.op = "raw" /\ built.pc = "start"
    /\ LET pkt == create_command_encoding_dosing_pump(
                      given.cmd_id, 27, IdAfter(msgId, 1), given.params)
       IN  /\ msgId' = IdAfter(msgId, 1)
           /\ built' = IF pkt.err # "none" THEN Rejected(built)
                       ELSE Sending(built, <<pkt>>, "finish")
    /\ UNCHANGED <<given, gen, wire, dose>>
    /\ UNCHANGED engineVars

\* await self._send_command(frame, ...) is entered for the next frame
SendCall ==
    /\ built.pc = "sending" /\ ~built.inflight /\ built.queue # <<>>
    /\ built' = [built EXCEPT !.inflight = TRUE, !.calls = @ + 1]
    /\ UNCHANGED <<given, gen, msgId, wire, dose>>
    /\ UNCHANGED engineVars

\* the frame is written and _send_command returns
SendReturns_op ==
    /\ built.pc = "sending" /\ built.inflight
    /\ wire' = Append(wire, Head(built.queue))
    /\ LET rest == Tail(built.queue)
           b    == [built EXCEPT !.inflight = FALSE, !.returned = @ + 1,
                                 !.queue = rest]
       IN  built' = IF rest # <<>> THEN b
                    ELSE IF built.after = "finish"
                    THEN [b EXCEPT !.pc = "done", !.err = "none"]
                    ELSE [b EXCEPT !.pc = built.after]
    /\ UNCHANGED <<given, gen, msgId, dose>>
    /\ UNCHANGED engineVars

\* the error is noted and the loop goes on with the same frame
SendRaises_goes_on ==
    /\ built.pc = "sending" /\ built.inflight
    /\ built' = [built EXCEPT !.inflight = FALSE, !.err = "BleakError"]
    /\ UNCHANGED <<given, gen, msgId, wire, dose>>
    /\ UNCHANGED engineVars

\* _send_command raises a transport error; the operation ends with it
SendRaises ==
    /\ built.pc = "sending" /\ built.inflight
    /\ built' = [built EXCEPT !.inflight = FALSE, !.pc = "done",
                              !.err = "BleakError"]
    /\ UNCHANGED <<given, gen, msgId, wire, dose>>
    /\ UNCHANGED engineVars

NextOps ==
    \/ StartManual
    \/ StartWeekly
    \/ WeeklyChoose
    \/ WeeklyByteAmount
    \/ StartRaw
    \/ SendCall
    \/ SendReturns_op
    \/ SendRaises

SpecOps == InitOps /\ [][NextOps]_vars

\* C21: an operation that ends with an invalid-parameter error has written
\* no frame
C21_RejectedBeforeIO ==
    (built.pc = "done" /\ built.err = "ValueError") => wire = <<>>

\* <<cmd, mode>> of a frame
FrameKind(f) == <<f[1], f[6]>>

\* C30: the weekly operation writes the time-sync pair, two acknowledgement
\* frames, the auto-mode activation and then the schedule frame(s), and no
\* other frame; each frame goes through its own _send_command call, started
\* after the previous one returned
C30_WeeklyFrameOrder ==
    /\ (given.op = "weekly" /\ built.pc = "done" /\ built.err = "none") =>
          /\ Len(wire) \in {6, 7}
          /\ [i \in 1..5 |-> FrameKind(wire[i])]
               = << <<90, 9>>, <<90, 9>>, <<165, 4>>, <<165, 4>>, <<165, 32>> >>
          /\ \A i \in 6..Len(wire) :
                FrameKind(wire[i]) \in {<<165, 21>>, <<165, 27>>}
    /\ given.op = "weekly" =>
          /\ Len(wire) = built.returned
          /\ built.calls <= built.returned + 1

\* the frames written after the auto-mode activation frame (165/32)
ScheduleFrames ==
    LET i == CHOOSE k \in 1..Len(wire) : FrameKind(wire[k]) = <<165, 32>>
    IN  SubSeq(wire, i + 1, Len(wire))

\* the parameter bytes of a frame
ParamsOf(f) == SubSeq(f, 7, Len(f) - 1)

\* the variant the policy asks for: the override, else the 25.5 mL threshold
HiLoAsked ==
    \/ given.prefer_hilo = "True"
    \/ given.prefer_hilo = "None" /\ given.amount > 255

\* C31: a completed weekly operation ends with exactly one single-byte
\* weekly-entry frame (mode 27) when the byte variant is selected (no override
\* and tenths <= 255, or prefer_hilo false), and with exactly the pair time
\* (mode 21) then hi/lo amount (mode 27) when the hi/lo variant is selected
C31_VariantSelection ==
    (given.op = "weekly" /\ built.pc = "done" /\ built.err = "none") =>
        LET s == ScheduleFrames
        IN  IF HiLoAsked
            THEN /\ Len(s) = 2
                 /\ FrameKind(s[1]) = <<165, 21>>
                 /\ FrameKind(s[2]) = <<165, 27>>
                 /\ ParamsOf(s[2])[4] = 0
                 /\ 256 * ParamsOf(s[2])[5] + ParamsOf(s[2])[6] = given.amount
            ELSE /\ Len(s) = 1
                 /\ FrameKind(s[1]) = <<165, 27>>
                 /\ ParamsOf(s[1])[6] = given.amount

\* _send_command raised for a frame of the operation
SendFailed == built.err = "BleakError"

\* C32: when sending a frame fails the operation stops with that error: the
\* frames after it are never written, nothing is written again or in
\* compensation, and the frames written before stay as they were
C32_NoRollback ==
    /\ [](SendFailed => built.pc = "done" /\ ~built.inflight)
    /\ [][SendFailed' => wire' = wire]_vars
    /\ [][Len(wire') >= Len(wire) /\ SubSeq(wire', 1, Len(wire)) = wire]_vars
    /\ [](\A i, j \in 1..Len(wire) : wire[i] = wire[j] => i = j)

\* the weekly operation stopped at its fourth frame: three frames written,
\* three left unsent
C32_Witness ==
    /\ given.op = "weekly"
    /\ SendFailed /\ built.pc = "done"
    /\ Len(wire) = 3
    /\ Len(built.queue) = 3

(***************************************************************************)
(* SpecProcess: successive calls of the frame builders within one Python   *)
(* process; gen.id is protocol._last_msg_id                                *)
(***************************************************************************)
MaxBuilds == 3

\* the arguments the callers pass
CallModes == {27, 34}

CallParams == {<<>>, <<0, 0, 0, 1, 140>>}

CallIds == {<<0, 1>>, <<0, 2>>}

InitProcess ==
    /\ gen = [kind |-> "protocol", prev |-> <<0, 0>>, id |-> InitialLastMsgId,
              stepped |-> FALSE]
    /\ built = <<>>
    /\ given = 0 /\ msgId = InitialMsgId /\ wire = <<>> /\ dose = IdleDose
    /\ sess = 0 /\ tasks = 0 /\ ble = 0 /\ hist = 0 /\ run = 0

\* a caller builds an A5 frame with dosingcommands, passing its own id
CallA5(mode, id, params) ==
    /\ Len(built) < MaxBuilds
    /\ LET r == create_command_encoding_dosing_pump(165, mode, id, params)
       IN  built' = Append(built, [builder |-> "a5",
                                   args |-> <<165, mode, id, params>>,
                                   bytes |-> r.bytes])
    /\ UNCHANGED <<given, gen, msgId, wire, dose>>
    /\ UNCHANGED engineVars

\* a caller builds an A5 frame with protocol._encode
CallEncode(mode, params) ==
    /\ Len(built) < MaxBuilds
    /\ LET r == encode(165, mode, params, gen.id)
       IN  /\ built' = Append(built, [builder |-> "encode",
                                      args |-> <<165, mode, params>>,
                                      bytes |-> r.bytes])
           /\ gen' = [gen EXCEPT !.prev = gen.id, !.id = r.last,
                                 !.stepped = TRUE]
    /\ UNCHANGED <<given, msgId, wire, dose>>
    /\ UNCHANGED engineVars

\* a caller builds a 5B frame with protocol.encode_5b
CallEncode5b(mode, params) ==
    /\ Len(built) < MaxBuilds
    /\ LET r == encode_5b(mode, params, gen.id)
       IN  /\ built' = Append(built, [builder |-> "encode_5b",
                                      args |-> <<91, mode, params>>,
                                      bytes |-> r.bytes])
           /\ gen' = [gen EXCEPT !.prev = gen.id, !.id = r.last,
                                 !.stepped = TRUE]
    /\ UNCHANGED <<given, msgId, wire, dose>>
    /\ UNCHANGED engineVars

NextProcess ==
    \/ \E mode \in CallModes, id \in CallIds, params \in CallParams :
          CallA5(mode, id, params)
    \/ \E mode \in CallModes, params \in CallParams : CallEncode(mode, params)
    \/ \E mode \in CallModes, params \in CallParams : CallEncode5b(mode, params)

SpecProcess == InitProcess /\ [][NextProcess]_vars

\* C34: two builds by the same builder with the same arguments give the
\* same bytes, whatever was built in between; no build moves a process-wide
\* message-id
C34_BuildersPure ==
    /\ \A i, j \in 1..Len(built) :
          (built[i].builder = built[j].builder /\ built[i].args = built[j].args)
              => built[i].bytes = built[j].bytes
    /\ gen.id = InitialLastMsgId

\* C35: a failure-free raw_dosing_pump with repeats = N has written the
\* built frame exactly N times
C35_RawRepeats ==
    (given.op = "raw" /\ built.pc = "done" /\ built.err = "none") =>
        /\ Len(wire) = given.repeats
        /\ \A i \in 1..Len(wire) : wire[i] = wire[1]

(***************************************************************************)
(* SpecRoundTrip: a dose frame built by dosingcommands.py and decoded by   *)
(* protocol.parse_frame.  Requested amounts are in tenths of a millilitre. *)
(***************************************************************************)
\* ml in hundredths of a millilitre
create_add_dosing_pump_command_manuell_ml_amount(msg_id, ch_id, ml) ==
    LET s == split_ml_25_6(ml)
    IN  IF s.err # "none"
        THEN [err |-> "ValueError", bytes |-> <<>>, tries |-> 0]
        ELSE create_add_dosing_pump_command_manuell_ml(msg_id, ch_id, s.hi, s.lo)

\* the requests tried: every manual dose 0.2 .. 999.9 mL on the four channels,
\* every byte amount and every hi/lo amount on masks and times around the
\* limits
DoseRequests ==
    [kind : {"manual"}, ch : 0..3, mask : {0}, time : {<<0, 0>>},
     tenths : ML_MIN_TENTHS..ML_MAX_TENTHS]
    \cup
    [kind : {"byte"}, ch : {0, 3}, mask : {1, 64, 90, 127},
     time : {<<0, 0>>, <<8, 5>>, <<23, 59>>}, tenths : 0..255]
    \cup
    [kind : {"hilo"}, ch : {0, 3}, mask : {1, 64, 90, 127},
     time : {<<8, 5>>}, tenths : ML_MIN_TENTHS..ML_MAX_TENTHS]

NotRequested == [stage |-> "given", frame |-> <<>>, event |-> [type |-> "none"]]

InitRoundTrip ==
    /\ given \in DoseRequests
    /\ built = NotRequested
    /\ gen = IdleGen /\ msgId = InitialMsgId /\ wire = <<>> /\ dose = IdleDose
    /\ sess = 0 /\ tasks = 0 /\ ble = 0 /\ hist = 0 /\ run = 0

\* the mode-27 frame of the request is built
BuildDoseFrame ==
    /\ built.stage = "given"
    /\ LET f == CASE given.kind = "manual" ->
                       create_add_dosing_pump_command_manuell_ml_amount(
                           <<0, 1>>, given.ch, given.tenths * 10)
                  [] given.kind = "byte" ->
                       create_schedule_weekly_byte_amount(
                           given.time, <<0, 1>>, given.ch, given.mask,
                           given.tenths)
                  [] given.kind = "hilo" ->
                       create_schedule_weekly_hi_lo(
                           given.time, <<0, 1>>, <<0, 2>>, given.ch,
                           given.mask, given.tenths * 10).frames[2]
       IN  built' = [built EXCEPT !.stage = "built", !.frame = f.bytes]
    /\ UNCHANGED <<given, gen, msgId, wire, dose>>
    /\ UNCHANGED engineVars

\* the frame's cmd, mode and parameter bytes are parsed
ParseDoseFrame ==
    /\ built.stage = "built"
    /\ built' = [built EXCEPT
                   !.stage = "parsed",
                   !.event = parse_frame(built.frame[1], built.frame[6],
                                         SubSeq(built.frame, 7,
                                                Len(built.frame) - 1))]
    /\ UNCHANGED <<given, gen, msgId, wire, dose>>
    /\ UNCHANGED engineVars

NextRoundTrip == BuildDoseFrame \/ ParseDoseFrame

SpecRoundTrip == InitRoundTrip /\ [][NextRoundTrip]_vars

\* C36: the frame built for a manual dose of ml on channel ch is parsed as a
\* manual dose of ml on channel ch
C36_ManualRoundTrip ==
    (built.stage = "parsed" /\ given.kind = "manual") =>
        /\ built.event.type = "manual_dose"
        /\ built.event.channel = given.ch
        /\ built.event.amount_ml = given.tenths

\* C37: the mode-27 frame built by either schedule encoder is parsed as a
\* dose_entry with the channel, the weekday mask and the daily amount that
\* were encoded
C37_WeeklyRoundTrip ==
    (built.stage = "parsed" /\ given.kind \in {"byte", "hilo"}) =>
        /\ built.event.type = "dose_entry"
        /\ built.event.channel = given.ch
        /\ built.event.weekdays_mask = given.mask
        /\ built.event.amount_ml = given.tenths

\* C38: whatever the number of rebuilds, the frame returned has the cmd,
\* version, length, mode and sanitized parameter bytes of the first attempt,
\* and its message-id is the id handed in, advanced by the next-id successor
\* zero or more times
C38_RebuildKeepsPayload ==
    IsFrame =>
        LET n == Len(given.params)
        IN  /\ built.bytes[1] = (IF given.builder = "encode_5b" THEN 91
                                 ELSE given.cmd)
            /\ built.bytes[2] = 1
            /\ built.bytes[3] = n + (IF given.builder = "encode_5b" THEN 2
                                     ELSE 5)
            /\ built.bytes[6] = given.mode
            /\ FrameParams = [i \in 1..n |->
                                IF given.params[i] % 256 = 90 THEN 89
                                ELSE given.params[i] % 256]
            /\ \E k \in 0..BUILD_ATTEMPTS :
                  <<built.bytes[4], built.bytes[5]>> = IdAfter(given.id, k)

\* an A5 frame rebuilt once: same payload, id advanced by one
C38_Witness ==
    /\ IsFrame
    /\ given.builder = "a5" /\ built.tries = 2
    /\ Len(given.params) = 2
    /\ FrameParams = given.params
    /\ <<built.bytes[4], built.bytes[5]>> = IdAfter(given.id, 1)

\* C39: while a sendCommand call holds the operation lock with a write in
\* flight and frames left, and no write of it has failed, the session's
\* transport handle and write characteristic are still set and the write goes
\* to the session's client: no disconnect() or idle-timer disconnect running
\* concurrently clears them in the middle of the command.
C39_HandlesStayDuringSend ==
    \A t \in Callers :
        (/\ tasks[t].op = "send"
         /\ sess.operation_lock = t
         /\ tasks[t].pc = "s_writing"
         /\ tasks[t].faults = 0
         /\ Len(tasks[t].done) < tasks[t].frames)
        => /\ sess.client # 0
           /\ sess.write_char
           /\ \A w \in WritesOf(t) : w.client = sess.client

\* start_notify_tx of task t returns in this step (without raising)
StartNotifyReturns(t) ==
    /\ tasks[t].pc \in {"t_start_notify", "t_subscribing"}
    /\ tasks'[t].pc = "t_add"

\* C40: whenever the session's notify-active flag is set and the session has a
\* live connection, that connection's client has an active notification
\* subscription; and a start_notify_tx that returns leaves the session's
\* current client subscribed.
C40_NotifyFlagMeansSubscribed ==
    /\ [](sess.notify_active /\ Live => ble.clients[sess.client].notifying)
    /\ [][\A t \in TaskIds :
             (StartNotifyReturns(t) /\ Live') =>
                 ble'.clients[sess'.client].notifying]_vars

====
